---- MODULE Spec2Model ----
(***************************************************************************)
(* A model of the emergence cell-view engine (src/emergence/cellview):     *)
(* the cellular sorting engine, its energy registry and cache, the metrics *)
(* computed over a run, the candidate generators and the challenge guard.  *)
(*                                                                         *)
(* Numbers.  Floats and Decimals are fixed-point integers in units of      *)
(* 1/Scale.  On the inputs enumerated below every quantity the engine      *)
(* compares is either exactly representable or separated from every other  *)
(* by more than one unit, so the order and the ties of the model's values  *)
(* are those of the values the Python code computes.                       *)
(***************************************************************************)
EXTENDS Integers, Sequences, FiniteSets, TLC

VARIABLES
    cfg,               \* the caller's arguments to CellViewEngine(...)
    pc,                \* where the caller is: "new", "idle", "run", "returned", "raised"; "off": no engine
    specs,             \* the energy_specs dict the caller passes (shared by reference)
    cells,             \* engine.cells
    energy_cache,      \* engine.energy_cache
    rng,               \* state of engine.rng
    calls,             \* how often spec.fn was invoked, per (algotype, n)
    swaps_per_step,    \* run(): local list
    sortedness_series, \* run(): local list
    aggregation_series,\* run(): local list
    lastSweep,         \* what the most recent step() inspected, pair by pair
    result,            \* what the call in progress returned or raised
    runNo,             \* 1 for the first engine of the caller, 2 for the second
    first,             \* the outcome of the first engine
    guard,             \* guard_dense_domain_for_challenge: its call and outcome
    corr,              \* corridor_around_sqrt: its frame
    lib                \* a call of a function of the library: its arguments and outcome

engineVars == <<cfg, pc, specs, cells, energy_cache, rng, calls, swaps_per_step,
                sortedness_series, aggregation_series, lastSweep, result, runNo, first>>
vars == <<engineVars, guard, corr, lib>>

(***************************************************************************)
(* Bounds of the model.                                                    *)
(***************************************************************************)
MaxLen == 3
MaxSteps == 3

\* The inputs the engine is constructed with.
NValues == {100}
CandValues == {2, 3, 7}
AlgotypeLists == { <<>>, <<"residue", "dirichlet5">>, <<"composite", "dirichlet11">>,
                   <<"dirichlet5", "bogus">> }
SeedHexValues == { <<>>, <<"1", "f">> }

\* Fixed-point unit of every float and Decimal of the model.
Scale == 12000

None == <<>>
Some(v) == <<v>>
IsNone(x) == x = <<>>
Val(x) == x[1]

Abs(x) == IF x < 0 THEN -x ELSE x
Max2(a, b) == IF a >= b THEN a ELSE b

RECURSIVE SeqsUpTo(_, _)
SeqsUpTo(S, n) ==
    IF n = 0 THEN { <<>> }
    ELSE LET shorter == SeqsUpTo(S, n - 1)
         IN shorter \cup { Append(s, x) : s \in { t \in shorter : Len(t) = n - 1 }, x \in S }

Range(s) == { s[i] : i \in DOMAIN s }

(***************************************************************************)
(* Energy heuristics (cellview/heuristics/core.py).  An EnergySpec is the  *)
(* record [name, fn, params]; fn names one of the scoring functions and    *)
(* params is a function from parameter names to values.  A scoring         *)
(* function returns [err, value]: err is "" unless it raised.              *)
(***************************************************************************)
NoParams == <<>>

\* dict.get(key, default)
Get(d, key, default) == IF key \in DOMAIN d THEN d[key] ELSE default

Raised(e) == [err |-> e, value |-> 0]
Returned(v) == [err |-> "", value |-> v]

\* math.cos(2*pi*m/n) in units of 1/Scale, for the denominators of CandValues.
CosTab(m, n) ==
    CASE n = 2 -> <<12000, -12000>>[m + 1]
      [] n = 3 -> <<12000, -6000, -6000>>[m + 1]
      [] n = 7 -> <<12000, 7482, -2670, -10812, -10812, -2670, 7482>>[m + 1]

RECURSIVE CosSum(_, _, _)
\* sum of cos(k * x) for k = 1..j, x = 2*pi*(mod_val/n)
CosSum(j, mod_val, n) ==
    IF j = 0 THEN 0
    ELSE CosSum(j - 1, mod_val, n) + CosTab((j * mod_val) % n, n)

dirichlet_energy(n, N, params) ==
    LET j == Get(params, "j", 5)
        normalize == Get(params, "normalize", TRUE)
        invert == Get(params, "invert", TRUE)
        mod_val == N % n
        s0 == Scale + 2 * CosSum(j, mod_val, n)
        s == IF normalize THEN s0 \div (2 * j + 1) ELSE s0
        val == Abs(s)
    IN Returned(IF invert THEN Scale - val ELSE val)

residue_energy(n, N, params) == Returned(((N % n) * Scale) \div n)

\* The names of REGISTRY and the function each resolves to.
REGISTRY == [ dirichlet |-> "dirichlet_energy", arctan |-> "arctan_geodesic_energy",
              zmetric |-> "z_metric_energy", residue |-> "residue_energy",
              composite |-> "composite_energy" ]

RECURSIVE Call(_, _, _, _)
RECURSIVE CompositeLoop(_, _, _, _, _, _, _)
RECURSIVE CompositeLoopSkipping(_, _, _, _, _, _, _)
\* A variant of the loop of composite_energy that passes over a name that is
\* not in REGISTRY.
CompositeLoopSkipping(weights, sub_params, k, n, N, total, wsum) ==
    IF k > Len(weights)
    THEN IF wsum = 0 THEN Returned(0) ELSE Returned((total * Scale) \div wsum)
    ELSE IF weights[k][1] \notin DOMAIN REGISTRY
    THEN CompositeLoopSkipping(weights, sub_params, k + 1, n, N, total, wsum)
    ELSE CompositeLoopSkipping(weights, sub_params, k + 1, n, N,
             total + (weights[k][2] * Call(REGISTRY[weights[k][1]], n, N,
                                           Get(sub_params, weights[k][1], NoParams)).value)
                        \div Scale,
             wsum + weights[k][2])

\* The loop of composite_energy over weights.items(), from item k on.
CompositeLoop(weights, sub_params, k, n, N, total, wsum) ==
    IF k > Len(weights)
    THEN IF wsum = 0 THEN Returned(0) ELSE Returned((total * Scale) \div wsum)
    ELSE LET name == weights[k][1]
             w == weights[k][2]
         IN IF name \notin DOMAIN REGISTRY
            THEN Raised("ValueError: Composite energy references unknown fn")
            ELSE LET sub == Call(REGISTRY[name], n, N, Get(sub_params, name, NoParams))
                 IN IF sub.err # "" THEN sub
                    ELSE CompositeLoop(weights, sub_params, k + 1, n, N,
                                       total + (w * sub.value) \div Scale, wsum + w)

composite_energy(n, N, params) ==
    CompositeLoop(Get(params, "weights", <<>>), Get(params, "sub_params", NoParams),
                  1, n, N, 0, 0)

\* spec.fn(n, N, params): the call through the function reference.  The
\* arctan and z-metric families take the 127-bit CHALLENGE.sqrt_n in their
\* presets and are not evaluated on the model's inputs.
Call(fn, n, N, params) ==
    CASE fn = "dirichlet_energy" -> dirichlet_energy(n, N, params)
      [] fn = "residue_energy" -> residue_energy(n, N, params)
      [] fn = "composite_energy" -> composite_energy(n, N, params)

\* A variant of resolve_energy that answers every name, falling back to the
\* Dirichlet kernel.
ResolveAnything(name) ==
    IF name \in DOMAIN REGISTRY
    THEN [err |-> "", fn |-> REGISTRY[name]]
    ELSE [err |-> "", fn |-> "dirichlet_energy"]

\* A variant of resolve_energy that knows no name.
ResolveNothing(name) == [err |-> "ValueError: Unknown energy function", fn |-> ""]

resolve_energy(name) ==
    IF name \in DOMAIN REGISTRY
    THEN [err |-> "", fn |-> REGISTRY[name]]
    ELSE [err |-> "ValueError: Unknown energy function", fn |-> ""]

EnergySpec(name, fn, params) == [name |-> name, fn |-> fn, params |-> params]

default_specs ==
    [ dirichlet5 |-> EnergySpec("dirichlet5", "dirichlet_energy",
                                [j |-> 5, normalize |-> TRUE, invert |-> TRUE]),
      dirichlet11 |-> EnergySpec("dirichlet11", "dirichlet_energy",
                                 [j |-> 11, normalize |-> TRUE, invert |-> TRUE]),
      arctan |-> EnergySpec("arctan", "arctan_geodesic_energy",
                            [sqrtN |-> "CHALLENGE.sqrt_n", scale |-> 2 * Scale]),
      zmetric |-> EnergySpec("zmetric", "z_metric_energy",
                             [sqrtN |-> "CHALLENGE.sqrt_n", alpha |-> 2400, beta |-> Scale]),
      combo_dir11_arctan |-> EnergySpec("combo_dir11_arctan", "composite_energy",
            [ weights |-> << <<"dirichlet", 7200>>, <<"arctan", 4800>> >>,
              sub_params |-> [ dirichlet |-> [j |-> 11, normalize |-> TRUE, invert |-> TRUE],
                               arctan |-> [sqrtN |-> "CHALLENGE.sqrt_n",
                                           scale |-> 30000] ] ]),
      combo_dir11_res |-> EnergySpec("combo_dir11_res", "composite_energy",
            [ weights |-> << <<"dirichlet", 7200>>, <<"residue", 4800>> >>,
              sub_params |-> [ dirichlet |-> [j |-> 11, normalize |-> TRUE, invert |-> TRUE],
                               residue |-> NoParams ] ]) ]

(***************************************************************************)
(* The engine (cellview/engine/engine.py).  A Cell is the record           *)
(* [id, n, algotype, frozen, energy]: id is the identity of the Python     *)
(* object (the constructor's index of the cell), energy is None or         *)
(* Some(value).  The operators below take and return the engine's mutable  *)
(* fields as one record E = [cells, energy_cache, specs, calls].           *)
(***************************************************************************)
Cell(id, n, algotype) ==
    [id |-> id, n |-> n, algotype |-> algotype, frozen |-> FALSE, energy |-> None]

\* A dict with one more (or one overwritten) item.
Put(d, key, value) == [k \in DOMAIN d \cup {key} |-> IF k = key THEN value ELSE d[k]]

\* A variant of the cells of a new engine in which the candidates beyond the
\* algotype list all get its last algotype.
InitCellsNoCycle(candidates, algotypes) ==
    LET algos == IF Len(algotypes) = 0 THEN <<"dirichlet5">> ELSE algotypes
    IN [idx \in 1..Len(candidates) |->
            Cell(idx - 1, candidates[idx],
                 algos[IF idx > Len(algos) THEN Len(algos) ELSE idx])]

\* CellViewEngine.__init__, lines 38-45: the cells of a new engine.
InitCells(candidates, algotypes) ==
    LET algos == IF Len(algotypes) = 0 THEN <<"dirichlet5">> ELSE algotypes
    IN [idx \in 1..Len(candidates) |->
            Cell(idx - 1, candidates[idx], algos[((idx - 1) % Len(algos)) + 1])]

\* The tail of energy_of, lines 61-64, with r what spec.fn returned or raised:
\* the value is stored in the cache and on the cell.
Memoize(E, i, cache_key, r) ==
    IF r.err # ""
    THEN [E |-> E, err |-> r.err, value |-> 0]
    ELSE [E |-> [E EXCEPT !.energy_cache = Put(@, cache_key, r.value),
                          !.cells[i].energy = Some(r.value)],
          err |-> "", value |-> r.value]

\* Lines 55-61 of energy_of with the spec resolved: the spec is kept in the
\* mapping and its function is called.
Evaluate(E, i, cache_key, spec, N) ==
    Memoize([E EXCEPT !.specs = Put(@, spec.name, spec),
                      !.calls = Put(@, cache_key, Get(@, cache_key, 0) + 1)],
            i, cache_key, Call(spec.fn, E.cells[i].n, N, spec.params))

\* Lines 55-64 of energy_of: the cell at position i is scored, its spec taken
\* from the mapping or, failing that, resolved by name.
Score(E, i, cache_key, algotype, N) ==
    IF algotype \in DOMAIN E.specs
    THEN Evaluate(E, i, cache_key, E.specs[algotype], N)
    ELSE IF resolve_energy(algotype).err # ""
    THEN [E |-> E, err |-> resolve_energy(algotype).err, value |-> 0]
    ELSE Evaluate(E, i, cache_key,
                  EnergySpec(algotype, resolve_energy(algotype).fn, NoParams), N)

\* A variant of energy_of that does not look into the cache: a cell without a
\* memoized energy is scored again.
EnergyRecomputed(E, i, N) ==
    IF ~IsNone(E.cells[i].energy)
    THEN [E |-> E, err |-> "", value |-> Val(E.cells[i].energy)]
    ELSE Score(E, i, <<E.cells[i].algotype, E.cells[i].n>>, E.cells[i].algotype, N)

\* energy_of(cell) for the cell at position i (1-based) of E.cells.
\* Returns [E, err, value].
energy_of(E, i, N) ==
    LET cell == E.cells[i]
        cache_key == <<cell.algotype, cell.n>>
    IN IF ~IsNone(cell.energy)
       THEN [E |-> E, err |-> "", value |-> Val(cell.energy)]
       ELSE IF cache_key \in DOMAIN E.energy_cache
       THEN [E |-> [E EXCEPT !.cells[i].energy = Some(E.energy_cache[cache_key])],
             err |-> "", value |-> E.energy_cache[cache_key]]
       ELSE Score(E, i, cache_key, cell.algotype, N)

(***************************************************************************)
(* The random source (cellview/utils/rng.py).  random.Random is modelled    *)
(* as a full-period linear congruential generator on 5 bits: seeding keeps *)
(* the low 5 bits of the seed, each draw advances the state once.          *)
(***************************************************************************)
HexDigits == <<"0", "1", "2", "3", "4", "5", "6", "7", "8", "9", "a", "b", "c", "d", "e", "f">>
HexValue(ch) == (CHOOSE k \in DOMAIN HexDigits : HexDigits[k] = ch) - 1

RECURSIVE IntOfHex(_)
\* int(seed_hex, 16)
IntOfHex(str) ==
    IF Len(str) = 0 THEN 0
    ELSE 16 * IntOfHex(SubSeq(str, 1, Len(str) - 1)) + HexValue(str[Len(str)])

\* CHALLENGE.seed_hex: the last two digits of SHA-256(str(N_VALUE)), which
\* hold the bits the generator keeps.
ChallengeSeedHex == <<"6", "9">>

RngSeed(seed_int) == seed_int % 32
RngNext(state) == (5 * state + 3) % 32
\* Random._randbelow(n): [state, value]
RandBelow(state, n) == [state |-> RngNext(state), value |-> (RngNext(state) \div 4) % n]

\* A variant of rng_from_hex that ignores the seed, as random.Random() does:
\* each construction starts the generator elsewhere.
RngUnseeded(seed_hex) == RngSeed(7 * runNo + Len(seed_hex))

rng_from_hex(seed_hex) ==
    LET hex == IF Len(seed_hex) = 0 THEN ChallengeSeedHex ELSE seed_hex
        seed_int == IntOfHex(hex)
    IN RngSeed(seed_int)

RECURSIVE ShuffleFrom(_, _, _)
\* Random.shuffle(x): for i in reversed(range(1, len(x))): swap x[i], x[randbelow(i+1)].
\* x is 1-based here, so position i of the code is x[i + 1].  Returns [state, x].
ShuffleFrom(state, x, i) ==
    IF i < 1 THEN [state |-> state, x |-> x]
    ELSE LET d == RandBelow(state, i + 1)
             j == d.value
         IN ShuffleFrom(d.state, [x EXCEPT ![i + 1] = x[j + 1], ![j + 1] = x[i + 1]], i - 1)

Shuffle(state, x) == ShuffleFrom(state, x, Len(x) - 1)

\* A variant of the pair indices that leaves out the last pair.
PairRangeShort(length) == [k \in 1..Max2(length - 2, 0) |-> k - 1]

\* list(range(length - 1))
PairRange(length) == [k \in 1..Max2(length - 1, 0) |-> k - 1]

\* A variant of sweep_indices that shuffles a list in ascending mode too and
\* throws it away.
sweep_indices_drawing(sweep_order, state, length) ==
    [state |-> Shuffle(state, PairRange(length)).state,
     idxs |-> IF sweep_order = "random" THEN Shuffle(state, PairRange(length)).x
              ELSE PairRange(length)]

\* sweep_indices(length): [state, idxs], idxs the 0-based pair indices in sweep order
sweep_indices(sweep_order, state, length) ==
    IF sweep_order = "random"
    THEN LET sh == Shuffle(state, PairRange(length))
         IN [state |-> sh.state, idxs |-> sh.x]
    ELSE [state |-> state, idxs |-> PairRange(length)]

\* The swap condition of step(), line 89.
\* A variant of the comparison of line 89 that lets equal energies through.
NotLower(e_left, e_right) == e_left >= e_right

Higher(e_left, e_right) == e_left > e_right

\* A variant of the exchange that stores the right cell on the left and loses
\* the left one.
Overwrite(cs, i) == [cs EXCEPT ![i] = cs[i + 1]]

\* cells[i], cells[i + 1] = cells[i + 1], cells[i]
Exchange(cs, i) == [cs EXCEPT ![i] = cs[i + 1], ![i + 1] = cs[i]]

\* A variant of the entry of a sweep that takes the right cell for not frozen.
EntryRightFree(i0, a, b, skip) ==
    [i |-> i0, left |-> a.id, right |-> b.id, right_frozen |-> FALSE,
     skipped |-> skip, e_left |-> None, e_right |-> None,
     after_left |-> a.id, after_right |-> b.id]

\* An entry of the record of a sweep: the pair inspected (the ids of its cells
\* before and after), whether it was skipped, and the energies compared.
Entry(i0, a, b, skip) ==
    [i |-> i0, left |-> a.id, right |-> b.id, right_frozen |-> b.frozen,
     skipped |-> skip, e_left |-> None, e_right |-> None,
     after_left |-> a.id, after_right |-> b.id]

\* A variant of the outcome of an inspection that does not count the exchange.
InspectedUncounted(E, i, seen, swap) ==
    [E |-> E, err |-> "", swapped |-> FALSE,
     entry |-> [seen EXCEPT !.after_left = E.cells[i].id,
                            !.after_right = E.cells[i + 1].id]]

\* The outcome of an inspection that compared the pair and left the engine as E.
Inspected(E, i, seen, swap) ==
    [E |-> E, err |-> "", swapped |-> swap,
     entry |-> [seen EXCEPT !.after_left = E.cells[i].id,
                            !.after_right = E.cells[i + 1].id]]

\* A variant of lines 89-93 that counts the exchange without making it.
CompareCounted(E, i, seen, e_left, e_right, swap) ==
    Inspected(E, i, [seen EXCEPT !.e_left = Some(e_left), !.e_right = Some(e_right)], swap)

\* Lines 89-93, with both energies known: [E, err, swapped, entry].
Compare(E, i, seen, e_left, e_right, swap) ==
    Inspected([E EXCEPT !.cells = IF swap THEN Exchange(@, i) ELSE @], i,
              [seen EXCEPT !.e_left = Some(e_left), !.e_right = Some(e_right)], swap)

\* Line 88 and on, with l what energy_of(a) returned and r what energy_of(b) did.
InspectRight(i, seen, l, r) ==
    IF r.err # ""
    THEN [E |-> r.E, err |-> r.err, swapped |-> FALSE,
          entry |-> [seen EXCEPT !.e_left = Some(l.value)]]
    ELSE Compare(r.E, i, seen, l.value, r.value,
                 Higher(l.value, r.value) /\ ~seen.right_frozen)

\* Line 87 and on, with l what energy_of(a) returned.
InspectLeft(i, seen, l, N) ==
    IF l.err # ""
    THEN [E |-> l.E, err |-> l.err, swapped |-> FALSE, entry |-> seen]
    ELSE InspectRight(i, seen, l, energy_of(l.E, i + 1, N))

\* A variant of the skip tests without the test of line 81.
SkipsBothFrozen(a, b, type2_immovable) == a.frozen /\ b.frozen

\* The skip tests of lines 81 and 84.
Skips(a, b, type2_immovable) ==
    IF type2_immovable /\ (a.frozen \/ b.frozen) THEN TRUE
    ELSE a.frozen /\ b.frozen

\* What step() does with the pair at 0-based index i0: [E, err, swapped, entry].
Inspect(E, i0, N, type2_immovable) ==
    LET a == E.cells[i0 + 1]
        b == E.cells[i0 + 2]
    IN IF Skips(a, b, type2_immovable)
       THEN [E |-> E, err |-> "", swapped |-> FALSE, entry |-> Entry(i0, a, b, TRUE)]
       ELSE InspectLeft(i0 + 1, Entry(i0, a, b, FALSE), energy_of(E, i0 + 1, N), N)

RECURSIVE SweepFrom(_, _, _, _, _, _, _)
\* The body of the for loop of step() after the inspection r of pair idxs[k].
SweepOn(r, idxs, k, N, type2_immovable, swaps, log) ==
    IF r.err # ""
    THEN [E |-> r.E, err |-> r.err, swaps |-> swaps, log |-> Append(log, r.entry)]
    ELSE SweepFrom(r.E, idxs, k + 1, N, type2_immovable,
                   IF r.swapped THEN swaps + 1 ELSE swaps, Append(log, r.entry))

\* The for loop of step() from position k of idxs on: [E, err, swaps, log].
SweepFrom(E, idxs, k, N, type2_immovable, swaps, log) ==
    IF k > Len(idxs) THEN [E |-> E, err |-> "", swaps |-> swaps, log |-> log]
    ELSE SweepOn(Inspect(E, idxs[k], N, type2_immovable), idxs, k, N, type2_immovable,
                 swaps, log)

\* step() once the sweep order sw is drawn: [E, rng, err, swaps, log].
StepWith(sw, r) ==
    [E |-> r.E, rng |-> sw.state, err |-> r.err, swaps |-> r.swaps, log |-> r.log]

\* The sweep of step() in the order sw.idxs.
SweepIn(E, sw, c) == StepWith(sw, SweepFrom(E, sw.idxs, 1, c.N, c.type2_immovable, 0, <<>>))

\* step(): [E, rng, err, swaps, log]; swaps is the value step() returns.
step(E, state, c) == SweepIn(E, sweep_indices(c.sweep_order, state, Len(E.cells)), c)

(***************************************************************************)
(* Metrics (cellview/metrics/core.py), in units of 1/Scale.                *)
(***************************************************************************)
\* A variant of the count of line 16 that takes equal neighbours for inversions.
InversionsOrTies(values) ==
    Cardinality({ k \in 1..(Len(values) - 1) : values[k] >= values[k + 1] })

\* sum(1 for a, b in zip(values, values[1:]) if a > b)
Inversions(values) == Cardinality({ k \in 1..(Len(values) - 1) : values[k] > values[k + 1] })

sortedness(values) ==
    IF Len(values) < 2 THEN Scale
    ELSE Scale - (Inversions(values) * Scale) \div (Len(values) - 1)

\* A variant of the count of line 27 that counts the pairs of unequal labels.
DifferentNeighbours(algotypes) ==
    Cardinality({ k \in 1..(Len(algotypes) - 1) : algotypes[k] # algotypes[k + 1] })

\* sum(1 for a, b in zip(algotypes, algotypes[1:]) if a == b)
SameNeighbours(algotypes) ==
    Cardinality({ k \in 1..(Len(algotypes) - 1) : algotypes[k] = algotypes[k + 1] })

aggregation(algotypes) ==
    IF Len(algotypes) < 2 THEN Scale
    ELSE (SameNeighbours(algotypes) * Scale) \div (Len(algotypes) - 1)

\* The default epsilon of detect_dg, 1e-3.
DefaultEpsilon == Scale \div 1000

RECURSIVE FirstDirectionAnyMove(_, _, _)
\* A variant of the first direction that takes the first value that differs
\* from series[0], whatever epsilon.
FirstDirectionAnyMove(series, epsilon, i) ==
    IF i > Len(series) THEN 0
    ELSE IF series[i] # series[1]
         THEN (IF series[i] > series[1] THEN 1 ELSE -1)
         ELSE FirstDirectionAnyMove(series, epsilon, i + 1)

RECURSIVE FirstDirection(_, _, _)
\* detect_dg, lines 59-62: the direction of the first move beyond epsilon, from i on.
FirstDirection(series, epsilon, i) ==
    IF i > Len(series) THEN 0
    ELSE IF Abs(series[i] - series[1]) > epsilon
         THEN (IF series[i] > series[1] THEN 1 ELSE -1)
         ELSE FirstDirection(series, epsilon, i + 1)

RECURSIVE ExtremaFrom(_, _, _, _, _, _, _)
\* detect_dg, lines 68-88: the extrema loop from position i on.  An extremum is
\* <<type, value, index>> with a 0-based index.
ExtremaFrom(series, epsilon, i, direction, cur_val, cur_idx, extrema) ==
    IF i > Len(series) THEN extrema
    ELSE LET val == series[i]
         IN IF direction = 1
            THEN IF val > cur_val
                 THEN ExtremaFrom(series, epsilon, i + 1, 1, val, i - 1, extrema)
                 ELSE IF val < cur_val - epsilon
                 THEN ExtremaFrom(series, epsilon, i + 1, -1, val, i - 1,
                                  Append(extrema, <<"P", cur_val, cur_idx>>))
                 ELSE ExtremaFrom(series, epsilon, i + 1, 1, cur_val, cur_idx, extrema)
            ELSE IF direction = -1
            THEN IF val < cur_val
                 THEN ExtremaFrom(series, epsilon, i + 1, -1, val, i - 1, extrema)
                 ELSE IF val > cur_val + epsilon
                 THEN ExtremaFrom(series, epsilon, i + 1, 1, val, i - 1,
                                  Append(extrema, <<"V", cur_val, cur_idx>>))
                 ELSE ExtremaFrom(series, epsilon, i + 1, -1, cur_val, cur_idx, extrema)
            ELSE extrema

\* A variant of the extrema of the series that takes every drop and every
\* rise for a reversal, whatever epsilon.
ExtremaNoHysteresis(series, epsilon) ==
    ExtremaFrom(series, 0, 1, FirstDirection(series, epsilon, 1), series[1], 0, <<>>)

\* detect_dg, step 1: the extrema of the series.
Extrema(series, epsilon) ==
    ExtremaFrom(series, epsilon, 1, FirstDirection(series, epsilon, 1),
                series[1], 0, <<>>)

\* A variant of IsEpisode without the test of line 108: a second peak that is
\* not higher counts as well.
IsRecovery(e1, e2, e3) ==
    /\ e1[1] = "P"
    /\ e2[1] = "V"
    /\ e3[1] = "P"
    /\ e1[2] - e2[2] > 0

\* Lines 102, 108 and 112: the triple e1, e2, e3 of extrema is an episode.
IsEpisode(e1, e2, e3) ==
    /\ e1[1] = "P"
    /\ e2[1] = "V"
    /\ e3[1] = "P"
    /\ e3[2] > e1[2]
    /\ e1[2] - e2[2] > 0

RECURSIVE EpisodesFrom(_, _, _, _)
\* detect_dg, lines 98-120: the scan of triples from k on: [episodes, index].
EpisodesFrom(extrema, k, episodes, total) ==
    IF k > Len(extrema) - 2 THEN [episodes |-> episodes, index |-> total]
    ELSE LET e1 == extrema[k]
             e2 == extrema[k + 1]
             e3 == extrema[k + 2]
             drop == e1[2] - e2[2]
             gain == e3[2] - e2[2]
         IN IF IsEpisode(e1, e2, e3)
            THEN EpisodesFrom(extrema, k + 1,
                     Append(episodes, [start |-> e1[3], end |-> e3[3], peak |-> e1[2],
                                       valley |-> e2[2], new_peak |-> e3[2]]),
                     total + (gain * Scale) \div drop)
            ELSE EpisodesFrom(extrema, k + 1, episodes, total)

\* detect_dg, step 2: lines 93-122.
Episodes(extrema) ==
    IF Len(extrema) < 3 THEN [episodes |-> <<>>, index |-> 0]
    ELSE EpisodesFrom(extrema, 1, <<>>, 0)

detect_dg(series, epsilon) ==
    IF Len(series) < 3 THEN [episodes |-> <<>>, index |-> 0]
    ELSE Episodes(Extrema(series, epsilon))

(***************************************************************************)
(* run(): the snapshot and the ranking (engine.py, lines 109-125).         *)
(***************************************************************************)
Digits == <<"0", "1", "2", "3", "4", "5", "6", "7", "8", "9">>
DigitValue(ch) == (CHOOSE k \in DOMAIN Digits : Digits[k] = ch) - 1

RECURSIVE DecimalStr(_)
\* str(Decimal): the canonical string of a non-negative value, as the digits
\* of its count of units.
DecimalStr(v) ==
    IF v < 10 THEN <<Digits[v + 1]>>
    ELSE Append(DecimalStr(v \div 10), Digits[(v % 10) + 1])

RECURSIVE DecimalOf(_)
\* Decimal(str)
DecimalOf(str) ==
    IF Len(str) = 0 THEN 0
    ELSE 10 * DecimalOf(SubSeq(str, 1, Len(str) - 1)) + DigitValue(str[Len(str)])

RECURSIVE FinalStateFrom(_, _, _, _)
RECURSIVE FinalStateOn(_, _, _, _)
\* The list comprehension of lines 110-113, from position k on: [E, err, out].
FinalStateFrom(E, k, N, out) ==
    IF k > Len(E.cells) THEN [E |-> E, err |-> "", out |-> out]
    ELSE FinalStateOn(energy_of(E, k, N), k, N, out)

\* One item of the comprehension, with r what energy_of(c) returned.
FinalStateOn(r, k, N, out) ==
    IF r.err # "" THEN [E |-> r.E, err |-> r.err, out |-> out]
    ELSE FinalStateFrom(r.E, k + 1, N,
             Append(out, [index |-> k - 1, n |-> r.E.cells[k].n,
                          algotype |-> r.E.cells[k].algotype,
                          energy |-> DecimalStr(r.value)]))

\* The sort key of line 115.
RankKey(x) == DecimalOf(x.energy)

\* A variant of ComesBefore for a sort that puts an item in front of its equals.
StrictlyBefore(x, y) == RankKey(x) < RankKey(y)

\* Where a stable ascending sort places an item: after every item whose key is
\* not larger.
ComesBefore(x, y) == RankKey(x) <= RankKey(y)

RECURSIVE InsertSorted(_, _)
InsertSorted(sorted, y) ==
    IF Len(sorted) = 0 THEN <<y>>
    ELSE IF ComesBefore(sorted[Len(sorted)], y) THEN Append(sorted, y)
    ELSE Append(InsertSorted(SubSeq(sorted, 1, Len(sorted) - 1), y), sorted[Len(sorted)])

RECURSIVE SortedFrom(_, _, _)
SortedFrom(xs, k, acc) ==
    IF k > Len(xs) THEN acc ELSE SortedFrom(xs, k + 1, InsertSorted(acc, xs[k]))

\* sorted(final_state, key=...): Python's sort is stable.
Ranked(final_state) == SortedFrom(final_state, 1, <<>>)

\* list.append(x)
ListAppend(xs, x) == Append(xs, x)

\* A variant of the loop test without the break of lines 106-107.
LoopToTheBound(done_steps, max_steps, swaps_list) == done_steps < max_steps

\* The loop test of lines 101 and 106-107: another iteration follows.
LoopContinues(done_steps, max_steps, swaps_list) ==
    IF done_steps >= max_steps THEN FALSE
    ELSE IF Len(swaps_list) = 0 THEN TRUE
    ELSE swaps_list[Len(swaps_list)] # 0

(***************************************************************************)
(* The caller and the engine as a state machine.  The caller is the one of *)
(* tests/test_guardrails.py, test_determinism: it builds an engine from    *)
(* cfg, runs it, and then builds and runs a second engine from the same    *)
(* arguments, passing the same specs dict and a fresh rng of the same      *)
(* seed.  cfg.frozen names the cells whose frozen flag the caller sets     *)
(* before run() (Cell.frozen is a public field; the engine never sets it). *)
(***************************************************************************)
SweepChoices == { <<"ascending", <<>> >> } \cup { <<"random", sd>> : sd \in SeedHexValues }
StepBounds == {0, 1, MaxSteps}

FrozenChoices(len) ==
    { [set |-> {}, type2 |-> FALSE] } \cup
    { [set |-> S, type2 |-> t] :
        S \in { {i} : i \in 0..(len - 1) } \cup (IF len >= 2 THEN { {0, 1} } ELSE {}),
        t \in BOOLEAN }

\* The arguments of a construction, and the cells the caller freezes.
Config(N, candidates, algotypes, so, max_steps, fz) ==
    [ N |-> N, candidates |-> candidates, algotypes |-> algotypes, sweep_order |-> so[1],
      seed_hex |-> so[2], max_steps |-> max_steps, type2_immovable |-> fz.type2,
      frozen |-> fz.set ]

EmptyDict == <<>>

\* The engine's mutable fields as one record, and back.
Engine == [cells |-> cells, energy_cache |-> energy_cache, specs |-> specs, calls |-> calls]

\* The frozen flags are as the caller wants them.
FrozenApplied == \A k \in DOMAIN cells : cells[k].frozen = (cells[k].id \in cfg.frozen)

IdleGuard == [phase |-> "idle", candidate_count |-> 0, n |-> 0, outcome |-> ""]
IdleCorr == [phase |-> "idle"]
IdleLib == [phase |-> "idle"]

\* Before the caller builds its first engine from the arguments c.
NewEngine(c) ==
    /\ cfg = c
    /\ pc = "new"
    /\ specs = default_specs
    /\ cells = <<>>
    /\ energy_cache = EmptyDict
    /\ rng = 0
    /\ calls = EmptyDict
    /\ swaps_per_step = <<>>
    /\ sortedness_series = <<>>
    /\ aggregation_series = <<>>
    /\ lastSweep = <<>>
    /\ result = None
    /\ runNo = 1
    /\ first = None

InitEngine ==
    \E N \in NValues, candidates \in SeqsUpTo(CandValues, MaxLen), a \in AlgotypeLists,
       so \in SweepChoices, m \in StepBounds :
        \E fz \in FrozenChoices(Len(candidates)) :
            NewEngine(Config(N, candidates, a, so, m, fz))

\* rng_from_hex(seed_hex) and CellViewEngine(N, candidates, algotypes, specs, rng, ...)
Construct ==
    /\ pc = "new"
    /\ pc' = "idle"
    /\ rng' = rng_from_hex(cfg.seed_hex)
    /\ specs' = (IF DOMAIN specs = {} THEN default_specs ELSE specs)
    /\ energy_cache' = EmptyDict
    /\ cells' = InitCells(cfg.candidates, cfg.algotypes)
    /\ calls' = EmptyDict
    /\ lastSweep' = <<>>
    /\ UNCHANGED <<cfg, swaps_per_step, sortedness_series, aggregation_series, result,
                   runNo, first, guard, corr, lib>>

\* The caller marks the cells of cfg.frozen: cell.frozen = True.
Freeze ==
    /\ pc = "idle"
    /\ ~FrozenApplied
    /\ cells' = [k \in DOMAIN cells |->
                    [cells[k] EXCEPT !.frozen = (cells[k].id \in cfg.frozen)]]
    /\ UNCHANGED <<cfg, pc, specs, energy_cache, rng, calls, swaps_per_step,
                   sortedness_series, aggregation_series, lastSweep, result, runNo, first,
                   guard, corr, lib>>

\* run() is called: lines 97-99.
RunCall ==
    /\ pc = "idle"
    /\ FrozenApplied
    /\ pc' = "run"
    /\ swaps_per_step' = <<>>
    /\ sortedness_series' = <<>>
    /\ aggregation_series' = <<>>
    /\ UNCHANGED <<cfg, specs, cells, energy_cache, rng, calls, lastSweep, result, runNo,
                   first, guard, corr, lib>>

\* The engine's fields after an operation that left them as E.
EngineBecomes(E) ==
    /\ cells' = E.cells
    /\ energy_cache' = E.energy_cache
    /\ specs' = E.specs
    /\ calls' = E.calls

\* Lines 103-105, with r what step() returned or raised.
AfterStep(r) ==
    /\ EngineBecomes(r.E)
    /\ rng' = r.rng
    /\ lastSweep' = r.log
    /\ IF r.err # ""
       THEN /\ pc' = "raised"
            /\ result' = Some([raised |-> r.err])
            /\ UNCHANGED <<swaps_per_step, sortedness_series, aggregation_series>>
       ELSE /\ swaps_per_step' = ListAppend(swaps_per_step, r.swaps)
            /\ sortedness_series' = ListAppend(sortedness_series,
                   sortedness([k \in DOMAIN r.E.cells |-> r.E.cells[k].n]))
            /\ aggregation_series' = ListAppend(aggregation_series,
                   aggregation([k \in DOMAIN r.E.cells |-> r.E.cells[k].algotype]))
            /\ UNCHANGED <<pc, result>>

\* One iteration of the loop of run(), lines 101-107.
RunStep ==
    /\ pc = "run"
    /\ LoopContinues(Len(swaps_per_step), cfg.max_steps, swaps_per_step)
    /\ AfterStep(step(Engine, rng, cfg))
    /\ UNCHANGED <<cfg, runNo, first, guard, corr, lib>>

\* The dict run() returns, lines 117-125.
RunResult(dg, final_state) ==
    [ raised |-> "",
      swaps_per_step |-> swaps_per_step,
      sortedness |-> sortedness_series,
      aggregation |-> aggregation_series,
      dg_episodes |-> dg.episodes,
      dg_index |-> dg.index,
      final_state |-> final_state,
      ranked_candidates |-> Ranked(final_state) ]

\* Lines 109-125, with fs the outcome of building final_state.
AfterLoop(fs) ==
    /\ EngineBecomes(fs.E)
    /\ IF fs.err # ""
       THEN /\ pc' = "raised"
            /\ result' = Some([raised |-> fs.err])
       ELSE /\ pc' = "returned"
            /\ result' = Some(RunResult(detect_dg(sortedness_series, DefaultEpsilon), fs.out))

\* The rest of run() after the loop, lines 109-125.
RunReturn ==
    /\ pc = "run"
    /\ ~LoopContinues(Len(swaps_per_step), cfg.max_steps, swaps_per_step)
    /\ AfterLoop(FinalStateFrom(Engine, 1, cfg.N, <<>>))
    /\ UNCHANGED <<cfg, rng, swaps_per_step, sortedness_series, aggregation_series,
                   lastSweep, runNo, first, guard, corr, lib>>

\* The caller keeps the first outcome and turns to the second engine.
NextEngine ==
    /\ pc \in {"returned", "raised"}
    /\ runNo = 1
    /\ first' = result
    /\ runNo' = 2
    /\ result' = None
    /\ pc' = "new"
    /\ UNCHANGED <<cfg, specs, cells, energy_cache, rng, calls, swaps_per_step,
                   sortedness_series, aggregation_series, lastSweep, guard, corr, lib>>

Init == InitEngine /\ guard = IdleGuard /\ corr = IdleCorr /\ lib = IdleLib

Next == Construct \/ Freeze \/ RunCall \/ RunStep \/ RunReturn \/ NextEngine

Spec == Init /\ [][Next]_vars

(***************************************************************************)
(* A caller that builds its second engine from the same arguments but with *)
(* an rng of any seed.                                                     *)
(***************************************************************************)
InitSeeds ==
    /\ \E N \in NValues, candidates \in SeqsUpTo(CandValues, MaxLen), a \in AlgotypeLists,
          so \in SweepChoices :
           \E fz \in FrozenChoices(Len(candidates)) :
               NewEngine(Config(N, candidates, a, so, MaxSteps, fz))
    /\ guard = IdleGuard
    /\ corr = IdleCorr
    /\ lib = IdleLib

\* The first engine, seeded from cfg.seed_hex.
ConstructFirst == runNo = 1 /\ Construct

\* rng_from_hex(seed_hex) and CellViewEngine(N, candidates, algotypes, specs, rng, ...)
\* for the second engine.
ConstructReseeded(seed_hex) ==
    /\ pc = "new"
    /\ runNo = 2
    /\ pc' = "idle"
    /\ rng' = rng_from_hex(seed_hex)
    /\ specs' = (IF DOMAIN specs = {} THEN default_specs ELSE specs)
    /\ energy_cache' = EmptyDict
    /\ cells' = InitCells(cfg.candidates, cfg.algotypes)
    /\ calls' = EmptyDict
    /\ lastSweep' = <<>>
    /\ UNCHANGED <<cfg, swaps_per_step, sortedness_series, aggregation_series, result,
                   runNo, first, guard, corr, lib>>

NextSeeds ==
    \/ ConstructFirst
    \/ \E seed_hex \in SeedHexValues : ConstructReseeded(seed_hex)
    \/ Freeze
    \/ RunCall
    \/ RunStep
    \/ RunReturn
    \/ NextEngine

SpecSeeds == InitSeeds /\ [][NextSeeds]_vars

(***************************************************************************)
(* A caller that uses energy_of directly and reaches into the engine, as   *)
(* tests/test_guardrails.py, test_energy_caching does: it clears a cell's  *)
(* memoized energy and overwrites cache entries.                           *)
(***************************************************************************)
\* Decimal("999.99"), the value the test writes into the cache.
Tampered == 11999880

EnergyAlgotypeLists == AlgotypeLists \cup { <<"residue", "bogus">> }

InitEnergy ==
    /\ \E N \in NValues, candidates \in SeqsUpTo(CandValues, MaxLen - 1),
          a \in EnergyAlgotypeLists :
           NewEngine(Config(N, candidates, a, <<"ascending", <<"1", "2", "3">> >>, 50,
                            [set |-> {}, type2 |-> FALSE]))
    /\ guard = IdleGuard
    /\ corr = IdleCorr
    /\ lib = IdleLib

\* engine.energy_of(engine.cells[i - 1]) returned or raised r.
AfterEnergyOf(i, r) ==
    /\ EngineBecomes(r.E)
    /\ result' = Some([op |-> "energy_of", cell |-> i, err |-> r.err, value |-> r.value])

EnergyOfCall(i) ==
    /\ pc = "idle"
    /\ i \in DOMAIN cells
    /\ AfterEnergyOf(i, energy_of(Engine, i, cfg.N))
    /\ UNCHANGED <<cfg, pc, rng, swaps_per_step, sortedness_series, aggregation_series,
                   lastSweep, runNo, first, guard, corr, lib>>

\* cell.energy = None
ClearMemo(i) ==
    /\ pc = "idle"
    /\ i \in DOMAIN cells
    /\ ~IsNone(cells[i].energy)
    /\ cells' = [cells EXCEPT ![i].energy = None]
    /\ result' = None
    /\ UNCHANGED <<cfg, pc, specs, energy_cache, rng, calls, swaps_per_step,
                   sortedness_series, aggregation_series, lastSweep, runNo, first,
                   guard, corr, lib>>

\* engine.energy_cache[(cell.algotype, cell.n)] = Decimal("999.99")
OverwriteCache(i) ==
    /\ pc = "idle"
    /\ i \in DOMAIN cells
    /\ energy_cache' = Put(energy_cache, <<cells[i].algotype, cells[i].n>>, Tampered)
    /\ result' = None
    /\ UNCHANGED <<cfg, pc, specs, cells, rng, calls, swaps_per_step,
                   sortedness_series, aggregation_series, lastSweep, runNo, first,
                   guard, corr, lib>>

NextEnergy ==
    \/ Construct
    \/ \E i \in 1..MaxLen : EnergyOfCall(i)
    \/ \E i \in 1..MaxLen : ClearMemo(i)
    \/ \E i \in 1..MaxLen : OverwriteCache(i)

SpecEnergy == InitEnergy /\ [][NextEnergy]_vars

(***************************************************************************)
(* The challenge guard (cellview/utils/candidates.py, lines 112-124).      *)
(***************************************************************************)
SAFE_COUNT_LIMIT == 50000000

\* How far around the limit the counts of the model reach.
GuardSpan == 12

GuardCounts == {0, 100, 60000000} \cup
               ((SAFE_COUNT_LIMIT - GuardSpan)..(SAFE_COUNT_LIMIT + GuardSpan))
\* The moduli the guard is called with; CHALLENGE.n itself has 127 bits.
GuardModuli == {-1, 0, 1, 100, 2147483647}

\* math.isqrt raises ValueError for a negative argument.
IsqrtRaises(n) == n < 0

\* A variant of the guard that already refuses the limit itself.
GuardAtLimit(candidate_count, n) ==
    IF IsqrtRaises(n) THEN "ValueError: isqrt() argument must be nonnegative"
    ELSE IF candidate_count >= SAFE_COUNT_LIMIT
    THEN "ValueError: Candidate count exceeds safe limit"
    ELSE ""

\* guard_dense_domain_for_challenge(candidate_count, n): "" when it returns,
\* the error when it raises.
guard_dense_domain_for_challenge(candidate_count, n) ==
    IF IsqrtRaises(n) THEN "ValueError: isqrt() argument must be nonnegative"
    ELSE IF candidate_count > SAFE_COUNT_LIMIT
    THEN "ValueError: Candidate count exceeds safe limit"
    ELSE ""

OffEngine ==
    /\ cfg = [N |-> 0]
    /\ pc = "off"
    /\ specs = EmptyDict
    /\ cells = <<>>
    /\ energy_cache = EmptyDict
    /\ rng = 0
    /\ calls = EmptyDict
    /\ swaps_per_step = <<>>
    /\ sortedness_series = <<>>
    /\ aggregation_series = <<>>
    /\ lastSweep = <<>>
    /\ result = None
    /\ runNo = 1
    /\ first = None

InitGuard ==
    /\ OffEngine
    /\ corr = IdleCorr
    /\ lib = IdleLib
    /\ guard \in { [phase |-> "call", candidate_count |-> k, n |-> n, outcome |-> ""] :
                   k \in GuardCounts, n \in GuardModuli }

GuardCall ==
    /\ guard.phase = "call"
    /\ guard' = [guard EXCEPT
                    !.outcome = guard_dense_domain_for_challenge(guard.candidate_count, guard.n),
                    !.phase = IF guard_dense_domain_for_challenge(guard.candidate_count,
                                                                  guard.n) = ""
                              THEN "returned" ELSE "raised"]
    /\ UNCHANGED <<engineVars, corr, lib>>

NextGuard == GuardCall

SpecGuard == InitGuard /\ [][NextGuard]_vars

(***************************************************************************)
(* corridor_around_sqrt (cellview/utils/candidates.py, lines 60-88).  The  *)
(* rng of a corridor is any generator: a draw is any value of the range.   *)
(***************************************************************************)
MaxWindow == 2
MaxSamples == 4

CorridorModuli == {16, 30}
CorridorCenters == {None, Some(2), Some(3)}
WindowValues == (-1)..MaxWindow
SampleValues == (-1)..MaxSamples

\* math.isqrt(n) for n >= 0
isqrt(n) == CHOOSE r \in 0..n : r * r <= n /\ n < (r + 1) * (r + 1)

\* list(range(low, high + 1))
RangeList(low, high) == [k \in 1..Max2(high - low + 1, 0) |-> low + k - 1]

\* Lines 74-77: the centre and the bounds of the corridor.
CorridorCenter(n, center) == IF IsNone(center) THEN isqrt(n) ELSE Val(center)
CorridorLow(c, window) == Max2(2, c - window)
CorridorHigh(c, window) == c + window
CorridorSpan(low, high) == high - low + 1

\* A variant of line 79 that samples whenever full is unset.
TakesAllIfFull(full, samples, span) == full

\* Line 79: the corridor is returned whole.
TakesAll(full, samples, span) == full \/ samples >= span

\* Line 83: while len(candidates) < samples
Sampling(candidates, samples) == Len(candidates) < samples

\* A variant of lines 85-87 that keeps every drawn value.
AcceptEvery(seen, candidates, val) == Append(candidates, val)

\* Lines 85-87: what a drawn value does to candidates.
Accept(seen, candidates, val) == IF val \in seen THEN candidates ELSE Append(candidates, val)
\* Lines 85-86: what a drawn value does to seen.
Remember(seen, val) == seen \cup {val}

\* The frame of a call corridor_around_sqrt(n, rng, samples, window, center, full).
CorridorRequest(n, sm, w, c, f) ==
    [phase |-> "call", n |-> n, samples |-> sm, window |-> w, center |-> c, full |-> f,
     low |-> 0, high |-> 0, span |-> 0, seen |-> {}, candidates |-> <<>>,
     firsts |-> <<>>, drew |-> FALSE, out |-> <<>>]

CorridorRequests ==
    { CorridorRequest(n, sm, w, c, f) :
      n \in CorridorModuli, sm \in SampleValues, w \in WindowValues,
      c \in CorridorCenters, f \in BOOLEAN }

InitCorridor ==
    /\ OffEngine
    /\ guard = IdleGuard
    /\ lib = IdleLib
    /\ corr \in CorridorRequests

\* Lines 74-82 with the bounds low, high.
Entered(low, high) ==
    IF TakesAll(corr.full, corr.samples, CorridorSpan(low, high))
    THEN corr' = [corr EXCEPT !.phase = "returned", !.low = low, !.high = high,
                              !.span = CorridorSpan(low, high),
                              !.out = RangeList(low, high)]
    ELSE corr' = [corr EXCEPT !.phase = "loop", !.low = low, !.high = high,
                              !.span = CorridorSpan(low, high)]

EnteredAround(c) == Entered(CorridorLow(c, corr.window), CorridorHigh(c, corr.window))

CorridorCall ==
    /\ corr.phase = "call"
    /\ EnteredAround(CorridorCenter(corr.n, corr.center))
    /\ UNCHANGED <<engineVars, guard, lib>>

\* One turn of the loop in which rng.randrange(low, high + 1) yields val.
\* firsts is the history of the values in the order of their first draw.
CorridorDraw(val) ==
    /\ corr.phase = "loop"
    /\ Sampling(corr.candidates, corr.samples)
    /\ val \in corr.low..corr.high
    /\ corr' = [corr EXCEPT !.seen = Remember(@, val),
                            !.candidates = Accept(corr.seen, @, val),
                            !.firsts = IF val \in Range(@) THEN @ ELSE Append(@, val),
                            !.drew = TRUE]
    /\ UNCHANGED <<engineVars, guard, lib>>

\* Line 88
CorridorReturn ==
    /\ corr.phase = "loop"
    /\ ~Sampling(corr.candidates, corr.samples)
    /\ corr' = [corr EXCEPT !.phase = "returned", !.out = corr.candidates]
    /\ UNCHANGED <<engineVars, guard, lib>>

\* Every value a corridor of the model can hold.
CorridorValues == 2..(5 + MaxWindow)

NextCorridor ==
    \/ CorridorCall
    \/ \E val \in CorridorValues : CorridorDraw(val)
    \/ CorridorReturn

SpecCorridor == InitCorridor /\ [][NextCorridor]_vars

\* The rng is fair: a value that stays drawable is eventually drawn.
FairRng == \A val \in CorridorValues : WF_vars(CorridorDraw(val))

SpecCorridorFair ==
    /\ SpecCorridor
    /\ FairRng
    /\ WF_vars(CorridorCall)
    /\ WF_vars(CorridorReturn)




(***************************************************************************)
(* multiband_corridors (cellview/utils/candidates.py, lines 91-109): the   *)
(* corridor of each band is a call of corridor_around_sqrt on the shared   *)
(* rng, whose frame is corr.                                               *)
(***************************************************************************)
MaxCorridors == 2

\* The bands (center, window, samples) of the model.
CorridorBands == { <<None, 1, 2>>, <<Some(3), 1, 1>>, <<Some(3), 1, 3>>, <<Some(3), 2, 2>> }

\* A variant of the test of line 106 that takes every value for new.
EveryFresh(seen, v) == TRUE

\* Line 106: v not in seen
Fresh(seen, v) == v \notin seen

RECURSIVE DedupedFrom(_, _, _, _)
\* Lines 103-108: the loop over out from position k on.
DedupedFrom(out, k, seen, deduped) ==
    IF k > Len(out) THEN deduped
    ELSE IF Fresh(seen, out[k])
    THEN DedupedFrom(out, k + 1, seen \cup {out[k]}, Append(deduped, out[k]))
    ELSE DedupedFrom(out, k + 1, seen, deduped)

Deduped(out) == DedupedFrom(out, 1, {}, <<>>)

InitMultiband ==
    /\ OffEngine
    /\ guard = IdleGuard
    /\ corr = IdleCorr
    /\ \E n \in CorridorModuli, b \in SeqsUpTo(CorridorBands, MaxCorridors) :
          lib = [phase |-> "bands", op |-> "multiband_corridors",
                 args |-> [n |-> n, bands |-> b], k |-> 1, acc |-> <<>>,
                 parts |-> <<>>, out |-> None]

\* Line 100: the corridor of band k is requested.
BandCall ==
    /\ lib.phase = "bands"
    /\ lib.k <= Len(lib.args.bands)
    /\ corr.phase = "idle"
    /\ corr' = CorridorRequest(lib.args.n, lib.args.bands[lib.k][3],
                               lib.args.bands[lib.k][2], lib.args.bands[lib.k][1], FALSE)
    /\ UNCHANGED <<engineVars, guard, lib>>

\* Line 100: out.extend(...) with what the corridor returned.  parts keeps
\* what each band returned.
BandReturn ==
    /\ lib.phase = "bands"
    /\ corr.phase = "returned"
    /\ lib' = [lib EXCEPT !.acc = @ \o corr.out, !.parts = Append(@, corr.out),
                          !.k = @ + 1]
    /\ corr' = IdleCorr
    /\ UNCHANGED <<engineVars, guard>>

\* Lines 101-109
MultibandReturn ==
    /\ lib.phase = "bands"
    /\ lib.k > Len(lib.args.bands)
    /\ lib' = [lib EXCEPT !.phase = "returned", !.out = Some(Deduped(lib.acc))]
    /\ UNCHANGED <<engineVars, guard, corr>>

NextMultiband ==
    \/ BandCall
    \/ CorridorCall
    \/ \E val \in CorridorValues : CorridorDraw(val)
    \/ CorridorReturn
    \/ BandReturn
    \/ MultibandReturn

SpecMultiband == InitMultiband /\ [][NextMultiband]_vars

(***************************************************************************)
(* dense_bands (cellview/utils/candidates.py, lines 28-48).                *)
(***************************************************************************)
MaxBands == 3

BandCenters == {1, 4, 8}
BandHalfWidths == (-1)..2

\* Lines 34-36: the segment (low, high) of the band (center, hw).
Segment(band) == <<Max2(2, band[1] - band[2]), band[1] + band[2]>>

\* The order of tuples that list.sort() uses.
SegmentLeq(a, b) == a[1] < b[1] \/ (a[1] = b[1] /\ a[2] <= b[2])

RECURSIVE InsertSegment(_, _)
InsertSegment(sorted, seg) ==
    IF Len(sorted) = 0 THEN <<seg>>
    ELSE IF SegmentLeq(sorted[Len(sorted)], seg) THEN Append(sorted, seg)
    ELSE Append(InsertSegment(SubSeq(sorted, 1, Len(sorted) - 1), seg), sorted[Len(sorted)])

RECURSIVE SortedSegments(_, _, _)
\* Lines 32-38: the segments of bands[k..], sorted into acc.
SortedSegments(bands, k, acc) ==
    IF k > Len(bands) THEN acc
    ELSE SortedSegments(bands, k + 1, InsertSegment(acc, Segment(bands[k])))

\* A variant of line 44 that takes the high end of the later segment.
LaterHigh(last_high, high) == high

\* Line 44: the high end of a run extended by a segment.
ExtendedHigh(last_high, high) == Max2(last_high, high)

RECURSIVE MergedFrom(_, _, _)
\* Lines 39-44: the merge loop from segment k on.
MergedFrom(segments, k, merged) ==
    IF k > Len(segments) THEN merged
    ELSE IF Len(merged) = 0
    THEN MergedFrom(segments, k + 1, Append(merged, segments[k]))
    ELSE IF segments[k][1] > merged[Len(merged)][2] + 1
    THEN MergedFrom(segments, k + 1, Append(merged, segments[k]))
    ELSE MergedFrom(segments, k + 1,
             [merged EXCEPT ![Len(merged)][2] = ExtendedHigh(@, segments[k][2])])

RECURSIVE Materialized(_, _, _)
\* Lines 45-47: out.extend(range(low, high + 1)) over merged[k..].
Materialized(merged, k, out) ==
    IF k > Len(merged) THEN out
    ELSE Materialized(merged, k + 1, out \o RangeList(merged[k][1], merged[k][2]))

dense_bands(bands) ==
    Materialized(MergedFrom(SortedSegments(bands, 1, <<>>), 1, <<>>), 1, <<>>)

(***************************************************************************)
(* Calls of the pure functions of the library: the metrics                 *)
(* (cellview/metrics/core.py), on the series of tests/test_metrics.py and  *)
(* on every short series over their levels.                                *)
(***************************************************************************)
MaxSeries == 7
MaxValues == 4
MaxWeights == 2

\* The sub-energies a weight map of the model names, and their weights
\* (0.6 and 0.4 as in default_specs, 0 and -0.6).
WeightNames == {"dirichlet", "residue", "composite", "nosuch"}
WeightValues == {0, 7200, 4800, -7200}
\* The items of a weight map: no name twice.
WeightMaps ==
    { w \in SeqsUpTo(WeightNames \X WeightValues, MaxWeights) :
        \A j, k \in DOMAIN w : j # k => w[j][1] # w[k][1] }
\* sub_params: none, or those of combo_dir11_res.
SubParamValues ==
    { NoParams,
      [dirichlet |-> [j |-> 11, normalize |-> TRUE, invert |-> TRUE], residue |-> NoParams] }

\* 0.0, 0.2, 1.0 and 1.5
SeriesLevels == {0, 2400, 12000, 18000}
\* The series of test_dg_ignore_smaller_recovery, with 0.8.
SmallerRecovery == <<0, 12000, 2400, 9600, 0>>
\* epsilon = 0.1 as in the tests, its negative, and 0.25, which is more than
\* the step between the two lowest levels
EpsilonValues == {1200, -1200, 3000}

MetricValues == {2, 3, 7}
MetricLabels == {"A", "B"}

Request(op, args) == [phase |-> "call", op |-> op, args |-> args, out |-> None]

\* The calls of the model, one per initial state.
Requested ==
    \/ \E sr \in SeqsUpTo(SeriesLevels, MaxSeries) \cup {SmallerRecovery}, e \in EpsilonValues :
          lib = Request("detect_dg", [series |-> sr, epsilon |-> e])
    \/ \E v \in SeqsUpTo(MetricValues, MaxValues) :
          lib = Request("sortedness", [values |-> v])
    \/ \E a \in SeqsUpTo(MetricLabels, MaxValues) :
          lib = Request("aggregation", [algotypes |-> a])
    \/ \E b \in SeqsUpTo(BandCenters \X BandHalfWidths, MaxBands) :
          lib = Request("dense_bands", [bands |-> b])
    \/ \E n \in CandValues, N \in NValues, w \in WeightMaps, sp \in SubParamValues :
          \/ lib = Request("composite_energy",
                           [n |-> n, N |-> N, params |-> [weights |-> w, sub_params |-> sp]])
          \/ lib = Request("composite_energy",
                           [n |-> n, N |-> N, params |-> [weights |-> w]])

InitLib ==
    /\ OffEngine
    /\ guard = IdleGuard
    /\ corr = IdleCorr
    /\ Requested

\* The call returns out.
Answered(out) ==
    /\ lib' = [lib EXCEPT !.phase = "returned", !.out = Some(out)]
    /\ UNCHANGED <<engineVars, guard, corr>>

\* The locals direction (as set by lines 55-63) and extrema of detect_dg when
\* it returns; None when it returned at line 49.
DgLocals(series, epsilon) ==
    IF Len(series) < 3 THEN None
    ELSE Some([direction |-> FirstDirection(series, epsilon, 1),
               extrema |-> Extrema(series, epsilon)])

DetectDgCall ==
    /\ lib.phase = "call"
    /\ lib.op = "detect_dg"
    /\ lib' = [phase |-> "returned", op |-> lib.op, args |-> lib.args,
               out |-> Some(detect_dg(lib.args.series, lib.args.epsilon)),
               locals |-> DgLocals(lib.args.series, lib.args.epsilon)]
    /\ UNCHANGED <<engineVars, guard, corr>>

SortednessCall ==
    /\ lib.phase = "call"
    /\ lib.op = "sortedness"
    /\ Answered(sortedness(lib.args.values))

AggregationCall ==
    /\ lib.phase = "call"
    /\ lib.op = "aggregation"
    /\ Answered(aggregation(lib.args.algotypes))

DenseBandsCall ==
    /\ lib.phase = "call"
    /\ lib.op = "dense_bands"
    /\ Answered(dense_bands(lib.args.bands))

CompositeCall ==
    /\ lib.phase = "call"
    /\ lib.op = "composite_energy"
    /\ Answered(composite_energy(lib.args.n, lib.args.N, lib.args.params))

NextLib ==
    DetectDgCall \/ SortednessCall \/ AggregationCall \/ DenseBandsCall \/ CompositeCall

SpecLib == InitLib /\ [][NextLib]_vars

(***************************************************************************)
(* The command line (run_cellview.py, main), with the candidates read from *)
(* --candidates-file (load_candidates, lines 48-51).  The frame of main is  *)
(* the record lib; the engine it builds is the one of the engine variables.*)
(***************************************************************************)
\* CHALLENGE.n.  The 127-bit modulus is represented by a 31-bit number with
\* the same residues modulo 2, 3 and 7: the energies of the model depend on
\* N through these residues only.
CHALLENGE_n == 2147483641

\* The default of --top-m.
DefaultTopM == 50

\* --override-n: absent, 0, a small modulus, the canonical one.
OverrideValues == {None, Some(0), Some(100), Some(CHALLENGE_n)}

\* The candidates files of the model: a file of count lines, of which the
\* model keeps the leading items; the engine of the model is built over them.
CliCounts == {SAFE_COUNT_LIMIT, SAFE_COUNT_LIMIT + 1, 60000000}
CandidateFiles ==
    { [count |-> Len(c), items |-> c] : c \in SeqsUpTo(CandValues, MaxLen) } \cup
    { [count |-> n, items |-> <<7, 3, 2>>] : n \in CliCounts }

CliAlgotypes == { <<"dirichlet5">>, <<"dirichlet5", "bogus">> }

InitCli ==
    /\ OffEngine
    /\ guard = IdleGuard
    /\ corr = IdleCorr
    /\ \E mode \in {"challenge", "validation"}, override_n \in OverrideValues,
          file \in CandidateFiles, a \in CliAlgotypes, so \in SweepChoices :
           lib = [phase |-> "start", op |-> "main",
                  args |-> [mode |-> mode, override_n |-> override_n,
                            candidates_file |-> file, algotypes |-> a,
                            sweep_order |-> so[1], seed_hex |-> so[2],
                            max_steps |-> MaxSteps, top_m |-> DefaultTopM],
                  N |-> 0, candidates |-> None, err |-> "", log |-> None]

\* args.override_n or CHALLENGE.n
OverrideOr(override_n) ==
    IF IsNone(override_n) \/ override_n = Some(0) THEN CHALLENGE_n ELSE Val(override_n)

\* A variant of the test of line 85 that lets every modulus through.
AnyModulus(mode, N) == FALSE

\* The test of line 85.
NotCanonical(mode, N) == mode = "challenge" /\ N # CHALLENGE_n

RECURSIVE Gcd(_, _)
\* math.gcd
Gcd(a, b) == IF b = 0 THEN a ELSE Gcd(b, a % b)

\* certify_top_m(ranked_candidates, N, m)
certify_top_m(ranked_candidates, N, m) ==
    [k \in 1..(IF m < Len(ranked_candidates) THEN Max2(m, 0) ELSE Len(ranked_candidates)) |->
        [rank |-> k, n |-> ranked_candidates[k].n, energy |-> ranked_candidates[k].energy,
         mod |-> N % ranked_candidates[k].n, gcd |-> Gcd(N, ranked_candidates[k].n),
         is_factor |-> (N % ranked_candidates[k].n) = 0]]

\* Lines 83-86.
MainStart ==
    /\ lib.phase = "start"
    /\ IF NotCanonical(lib.args.mode, OverrideOr(lib.args.override_n))
       THEN lib' = [lib EXCEPT !.phase = "raised", !.N = OverrideOr(lib.args.override_n),
                               !.err = "ValueError: Challenge mode must use canonical N"]
       ELSE lib' = [lib EXCEPT !.phase = "parsed", !.N = OverrideOr(lib.args.override_n)]
    /\ UNCHANGED <<engineVars, guard, corr>>

\* Lines 88-92: load_candidates returns the values of the file.
MainLoad ==
    /\ lib.phase = "parsed"
    /\ lib' = [lib EXCEPT !.phase = "loaded", !.candidates = Some(lib.args.candidates_file)]
    /\ UNCHANGED <<engineVars, guard, corr>>

\* Lines 93-94 with r what the guard returned or raised; when it lets the run
\* through, the constructor is called next with the arguments of lines 96-104.
Guarded(r) ==
    IF r # ""
    THEN /\ lib' = [lib EXCEPT !.phase = "raised", !.err = r]
         /\ UNCHANGED <<engineVars, guard, corr>>
    ELSE /\ lib' = [lib EXCEPT !.phase = "checked"]
         /\ cfg' = Config(lib.N, Val(lib.candidates).items, lib.args.algotypes,
                          <<lib.args.sweep_order, lib.args.seed_hex>>, lib.args.max_steps,
                          [set |-> {}, type2 |-> FALSE])
         /\ pc' = "new"
         /\ specs' = default_specs
         /\ UNCHANGED <<cells, energy_cache, rng, calls, swaps_per_step, sortedness_series,
                        aggregation_series, lastSweep, result, runNo, first, guard, corr>>

MainGuard ==
    /\ lib.phase = "loaded"
    /\ Guarded(IF lib.args.mode = "challenge"
               THEN guard_dense_domain_for_challenge(Val(lib.candidates).count, lib.N)
               ELSE "")

\* Lines 107-121: the run returned; its certification and the log.
MainLog ==
    /\ lib.phase = "checked"
    /\ pc = "returned"
    /\ lib' = [lib EXCEPT !.phase = "logged",
                  !.log = Some([N |-> lib.N,
                                seed_hex |-> (IF lib.args.seed_hex = <<>> THEN ChallengeSeedHex
                                              ELSE lib.args.seed_hex),
                                candidate_count |-> Val(lib.candidates).count,
                                results |-> Val(result),
                                certification |->
                                    certify_top_m(Val(result).ranked_candidates, lib.N,
                                                  lib.args.top_m)])]
    /\ UNCHANGED <<engineVars, guard, corr>>

\* Line 105 raised: main ends with the error of the run.
MainAbort ==
    /\ lib.phase = "checked"
    /\ pc = "raised"
    /\ lib' = [lib EXCEPT !.phase = "raised", !.err = Val(result).raised]
    /\ UNCHANGED <<engineVars, guard, corr>>

NextCli ==
    \/ MainStart
    \/ MainLoad
    \/ MainGuard
    \/ Construct
    \/ RunCall
    \/ RunStep
    \/ RunReturn
    \/ MainLog
    \/ MainAbort

SpecCli == InitCli /\ [][NextCli]_vars

(***************************************************************************)
(* Properties.                                                             *)
(***************************************************************************)
Finished == pc \in {"returned", "raised"}
Returned1 == pc = "returned" /\ ~IsNone(result)

\* The algotype a has neither a spec in the engine's mapping nor a registry entry.
Unresolvable(a) == a \notin DOMAIN specs /\ a \notin DOMAIN REGISTRY

\* C1: two engines built from the same arguments and the same seed, each run
\* once, end in the same outcome: the same swaps_per_step, dg_index and final
\* (n, energy) sequence (indeed the same whole result), in ascending and in
\* random sweep order.
C1_Determinism == (runNo = 2 /\ Finished) => result = first

\* Both runs returned, in random sweep order, after a first step that inspected
\* the pairs out of ascending order and exchanged some of them.
C1_Witness ==
    /\ runNo = 2
    /\ Returned1
    /\ cfg.sweep_order = "random"
    /\ Len(cells) = MaxLen
    /\ Len(Val(result).swaps_per_step) >= 2
    /\ Val(result).swaps_per_step[1] > 0
    /\ lastSweep[1].i # 0

\* C2: run() takes at most max_steps steps and stops right after the first
\* step without a swap: swaps_per_step is no longer than max_steps, every
\* entry before the last is positive, and a list shorter than max_steps ends in 0.
C2_RunStops ==
    Returned1 =>
        LET sp == Val(result).swaps_per_step
        IN /\ Len(sp) <= Max2(cfg.max_steps, 0)
           /\ \A k \in 1..(Len(sp) - 1) : sp[k] > 0
           /\ (Len(sp) < cfg.max_steps) => (Len(sp) > 0 /\ sp[Len(sp)] = 0)

\* A run that stopped early on a step without swaps after a step with swaps.
C2_Witness ==
    /\ Returned1
    /\ Len(Val(result).swaps_per_step) = 2
    /\ cfg.max_steps > 2
    /\ Val(result).swaps_per_step[2] = 0

\* The pair of the entry e was exchanged by the sweep.
Exchanged(e) == e.after_left = e.right /\ e.after_right = e.left
\* The pair of the entry e was left in place.
Kept(e) == e.after_left = e.left /\ e.after_right = e.right
\* The pair of the entry e was inspected and both energies were compared.
Compared(e) == ~e.skipped /\ ~IsNone(e.e_left) /\ ~IsNone(e.e_right)

\* C3: in a step, a pair that is not skipped is exchanged exactly when the
\* left energy is strictly greater than the right energy and the right cell
\* is not frozen, and is left in place otherwise; a skipped pair is left in
\* place; the value step() returns is the number of exchanges of the sweep.
C3_SwapRule ==
    /\ \A k \in DOMAIN lastSweep :
          LET e == lastSweep[k]
          IN /\ Exchanged(e) \/ Kept(e)
             /\ Compared(e) =>
                   (Exchanged(e) <=> (Val(e.e_left) > Val(e.e_right) /\ ~e.right_frozen))
             /\ e.skipped => Kept(e)
    /\ (pc \in {"run", "returned"} /\ Len(swaps_per_step) > 0) =>
          swaps_per_step[Len(swaps_per_step)] =
              Cardinality({ k \in DOMAIN lastSweep : Exchanged(lastSweep[k]) })

\* A sweep that exchanged one pair and left a pair of equal energies in place.
C3_Witness ==
    /\ pc = "run"
    /\ \E k \in DOMAIN lastSweep : Exchanged(lastSweep[k])
    /\ \E k \in DOMAIN lastSweep :
          /\ Compared(lastSweep[k])
          /\ Kept(lastSweep[k])
          /\ lastSweep[k].e_left = lastSweep[k].e_right

\* C4: ranked_candidates is a permutation of final_state in non-decreasing
\* order of energy, and items of equal energy keep the order they have in
\* final_state.
C4_StableRanking ==
    Returned1 =>
        LET fs == Val(result).final_state
            rk == Val(result).ranked_candidates
        IN /\ Len(rk) = Len(fs)
           /\ \A k \in DOMAIN rk : rk[k] = fs[rk[k].index + 1]
           /\ \A j, k \in DOMAIN rk : j < k =>
                 /\ rk[j].index # rk[k].index
                 /\ DecimalOf(rk[j].energy) <= DecimalOf(rk[k].energy)
                 /\ (DecimalOf(rk[j].energy) = DecimalOf(rk[k].energy))
                       => rk[j].index < rk[k].index

\* A ranking that moved an item to the front and holds two items of equal energy.
C4_Witness ==
    /\ Returned1
    /\ Len(Val(result).ranked_candidates) = MaxLen
    /\ Val(result).ranked_candidates[1].index # 0
    /\ \E j, k \in DOMAIN Val(result).ranked_candidates :
          /\ j < k
          /\ Val(result).ranked_candidates[j].energy = Val(result).ranked_candidates[k].energy

\* This step is a call of energy_of (the only steps that leave a result behind
\* while the engine is idle).
IsEnergyOfCall == pc = "idle" /\ pc' = "idle" /\ ~IsNone(result') /\ result' # result
CalledCell == Val(result').cell
CalledKey == <<cells[CalledCell].algotype, cells[CalledCell].n>>

\* What energy_of does when the cell has a memoized energy, and when it has
\* none but the cache holds its key.
CacheFirst ==
    IsEnergyOfCall =>
        /\ ~IsNone(cells[CalledCell].energy) =>
              /\ Val(result').err = ""
              /\ Val(result').value = Val(cells[CalledCell].energy)
              /\ UNCHANGED <<cells, energy_cache, calls, specs>>
        /\ (IsNone(cells[CalledCell].energy) /\ CalledKey \in DOMAIN energy_cache) =>
              /\ Val(result').err = ""
              /\ Val(result').value = energy_cache[CalledKey]
              /\ cells' = [cells EXCEPT ![CalledCell].energy = Some(energy_cache[CalledKey])]
              /\ UNCHANGED <<energy_cache, calls, specs>>

\* C5: energy_of returns the cell's memoized energy when there is one;
\* otherwise, when the cache holds (algotype, n), it returns the cached value
\* and memoizes it on the cell without calling the scoring function, so that a
\* value written over the cache entry is what the next call returns once the
\* cell's memoized energy is cleared.
C5_CachePrecedence == [][CacheFirst]_vars

\* energy_of returned the value written over a cache entry that an earlier call
\* had computed, and the scoring function ran only that once.
C5_Witness ==
    /\ pc = "idle"
    /\ ~IsNone(result)
    /\ Val(result).err = ""
    /\ Val(result).value = Tampered
    /\ cells[Val(result).cell].energy = Some(Tampered)
    /\ Get(calls, <<cells[Val(result).cell].algotype, cells[Val(result).cell].n>>, 0) = 1

\* What energy_of does when the cell has neither a memoized energy nor a
\* cached one and its algotype is missing from the spec mapping.
LazyResolution ==
    (/\ IsEnergyOfCall
     /\ IsNone(cells[CalledCell].energy)
     /\ CalledKey \notin DOMAIN energy_cache
     /\ cells[CalledCell].algotype \notin DOMAIN specs) =>
        IF cells[CalledCell].algotype \in DOMAIN REGISTRY
        THEN /\ Val(result').err = ""
             /\ cells'[CalledCell].energy = Some(Val(result').value)
             /\ specs' = Put(specs, cells[CalledCell].algotype,
                             [name |-> cells[CalledCell].algotype,
                              fn |-> REGISTRY[cells[CalledCell].algotype],
                              params |-> NoParams])
        ELSE /\ Val(result').err = "ValueError: Unknown energy function"
             /\ UNCHANGED <<cells, energy_cache, calls, specs>>

\* C6: the first evaluation of a cell whose algotype is neither in the spec
\* mapping nor in the registry fails with the unknown-function error; with an
\* algotype missing from the mapping but present in the registry the
\* evaluation succeeds and the mapping gains a spec of that name with empty
\* parameters.
C6_LazyResolution == [][LazyResolution]_vars

\* An evaluation just failed on an unknown algotype in an engine whose mapping
\* an earlier evaluation had extended from the registry.
C6_Witness ==
    /\ pc = "idle"
    /\ ~IsNone(result)
    /\ Val(result).err = "ValueError: Unknown energy function"
    /\ cells[Val(result).cell].algotype = "bogus"
    /\ "residue" \in DOMAIN specs
    /\ specs["residue"].params = NoParams
    /\ \E k \in DOMAIN cells : cells[k].algotype = "residue" /\ ~IsNone(cells[k].energy)

\* C7 as stated: the run of a constructed engine (N >= 1, candidates >= 2)
\* never ends in an error.
C7_RunNeverFails == pc # "raised"

\* C7, amended: construction accepts every configuration, unknown algotypes
\* included; run() ends in an error only in an engine that holds a cell whose
\* algotype is in neither the spec mapping nor the registry, the error is the
\* unknown-function error, and such an engine never returns from run().
C7_RunFailsOnlyOnUnknown ==
    /\ (pc # "new") => Len(cells) = Len(cfg.candidates)
    /\ (pc = "raised") =>
          /\ Val(result).raised = "ValueError: Unknown energy function"
          /\ \E k \in DOMAIN cells : Unresolvable(cells[k].algotype)
    /\ (pc = "returned") => \A k \in DOMAIN cells : ~Unresolvable(cells[k].algotype)

\* A run in random order over MaxLen cells, one of them scored through the
\* registry, returned after max_steps steps.
C7_Witness ==
    /\ Returned1
    /\ cfg.sweep_order = "random"
    /\ Len(cells) = MaxLen
    /\ \E k \in DOMAIN cells : cells[k].algotype = "residue"
    /\ Len(Val(result).swaps_per_step) = MaxSteps

GuardDone == guard.phase \in {"returned", "raised"}

Distinct(xs) == \A j, k \in DOMAIN xs : j # k => xs[j] # xs[k]

\* C9: corridor_around_sqrt with full unset and 0 <= samples < span returns
\* exactly samples integers, no two equal, each in
\* [max(2, center - window), center + window], in the order of their first draw.
C9_CorridorSample ==
    (/\ corr.phase = "returned"
     /\ ~corr.full
     /\ 0 <= corr.samples
     /\ corr.samples < corr.span) =>
        LET c == IF IsNone(corr.center) THEN isqrt(corr.n) ELSE Val(corr.center)
        IN /\ corr.span = (c + corr.window) - Max2(2, c - corr.window) + 1
           /\ Len(corr.out) = corr.samples
           /\ Distinct(corr.out)
           /\ \A k \in DOMAIN corr.out :
                 /\ corr.out[k] >= Max2(2, c - corr.window)
                 /\ corr.out[k] <= c + corr.window
           /\ corr.out = SubSeq(corr.firsts, 1, corr.samples)
           /\ Len(corr.firsts) = corr.samples

\* A sample of all values of the corridor but one, in an order that is not
\* the ascending one, from a corridor whose low end is clamped.
C9_Witness ==
    /\ corr.phase = "returned"
    /\ ~corr.full
    /\ corr.samples = corr.span - 1
    /\ corr.samples >= 3
    /\ corr.low = 2
    /\ corr.out[1] > corr.out[2]

\* C10: the rejection loop is entered only with full unset and samples < span,
\* otherwise the whole corridor is returned without a draw; under a fair rng
\* every call returns.
C10_CorridorTerminates ==
    /\ [](corr.phase = "loop" => (~corr.full /\ corr.samples < corr.span))
    /\ []((corr.phase = "returned" /\ (corr.full \/ corr.samples >= corr.span)) =>
             (~corr.drew /\ corr.out = RangeList(corr.low, corr.high)))
    /\ <>(corr.phase = "returned")

\* The loop returned after it had drawn all values of the corridor but one.
C10_Witness ==
    /\ corr.phase = "returned"
    /\ corr.drew
    /\ corr.samples = corr.span - 1
    /\ corr.span = 2 * MaxWindow + 1
    /\ Len(corr.out) = corr.samples

LibReturned(op) == lib.phase = "returned" /\ lib.op = op

\* The positions of the extrema sequence ex at which an episode starts.
EpisodeStarts(ex) ==
    { k \in 1..(Len(ex) - 2) :
        /\ ex[k][1] = "P" /\ ex[k + 1][1] = "V" /\ ex[k + 2][1] = "P"
        /\ ex[k + 2][2] > ex[k][2]
        /\ ex[k][2] - ex[k + 1][2] > 0 }

\* The j-th smallest element of the set S of integers.
Nth(S, j) == CHOOSE k \in S : Cardinality({ h \in S : h <= k }) = j

RECURSIVE ScoreSum(_, _)
\* The sum of (new_peak - valley) / (peak - valley) over the first j episodes.
ScoreSum(episodes, j) ==
    IF j = 0 THEN 0
    ELSE ScoreSum(episodes, j - 1) +
         ((episodes[j].new_peak - episodes[j].valley) * Scale)
             \div (episodes[j].peak - episodes[j].valley)

\* C11: detect_dg records one episode for each consecutive triple (Peak,
\* Valley, Peak) of the extrema whose second peak is strictly higher than the
\* first and whose drop exceeds the floor, in the order of the triples, and
\* none for any other triple; the index is the sum of the scores of the
\* recorded episodes; a series shorter than 3 points gives no episode and
\* index 0; [0, 1, 0.2, 1.5, 0] with epsilon 0.1 gives one episode
\* (1, 0.2, 1.5) and index 1.625, and [0, 1, 0.2, 0.8, 0] gives none.
C11_DgEpisodes ==
    LibReturned("detect_dg") =>
        LET out == Val(lib.out)
            series == lib.args.series
            ex == IF Len(series) < 3 THEN <<>> ELSE Extrema(series, lib.args.epsilon)
            starts == EpisodeStarts(ex)
        IN /\ Len(out.episodes) = Cardinality(starts)
           /\ \A j \in DOMAIN out.episodes :
                 LET k == Nth(starts, j)
                 IN out.episodes[j] = [start |-> ex[k][3], end |-> ex[k + 2][3],
                                       peak |-> ex[k][2], valley |-> ex[k + 1][2],
                                       new_peak |-> ex[k + 2][2]]
           /\ out.index = ScoreSum(out.episodes, Len(out.episodes))
           /\ (Len(series) < 3) => (out.episodes = <<>> /\ out.index = 0)
           /\ (series = <<0, 12000, 2400, 18000, 0>> /\ lib.args.epsilon = 1200) =>
                 /\ Len(out.episodes) = 1
                 /\ out.episodes[1].peak = 12000
                 /\ out.episodes[1].valley = 2400
                 /\ out.episodes[1].new_peak = 18000
                 /\ out.index = 19500
           /\ (series = SmallerRecovery /\ lib.args.epsilon = 1200) =>
                 (out.episodes = <<>> /\ out.index = 0)

\* detect_dg returned two episodes and the sum of their scores.
C11_Witness ==
    /\ LibReturned("detect_dg")
    /\ Len(Val(lib.out).episodes) = 2
    /\ Val(lib.out).index > 2 * Scale

\* C12: sortedness is 1 - inversions / (length - 1), lies in [0, 1], is 1 for
\* a non-decreasing sequence and for a sequence shorter than 2, and is 0 for a
\* strictly decreasing sequence (of 2 values or more).
C12_Sortedness ==
    LibReturned("sortedness") =>
        LET v == lib.args.values
            out == Val(lib.out)
            inv == Cardinality({ k \in 1..(Len(v) - 1) : v[k] > v[k + 1] })
        IN /\ 0 <= out /\ out <= Scale
           /\ (Len(v) >= 2) => ((Scale - out) * (Len(v) - 1) = inv * Scale)
           /\ (Len(v) < 2) => out = Scale
           /\ (\A k \in 1..(Len(v) - 1) : v[k] <= v[k + 1]) => out = Scale
           /\ (Len(v) >= 2 /\ \A k \in 1..(Len(v) - 1) : v[k] > v[k + 1]) => out = 0

\* sortedness of a non-decreasing sequence of MaxValues values with a repeated
\* one.
C12_Witness ==
    /\ LibReturned("sortedness")
    /\ Len(lib.args.values) = MaxValues
    /\ Val(lib.out) = Scale
    /\ \E k \in 1..(MaxValues - 1) : lib.args.values[k] = lib.args.values[k + 1]

\* C13: aggregation is the fraction of adjacent pairs of equal labels, and 1
\* for fewer than 2 labels: equal labels give 1, alternating labels give 0,
\* and [A, A, B, B] gives 2/3.
C13_Aggregation ==
    LibReturned("aggregation") =>
        LET a == lib.args.algotypes
            out == Val(lib.out)
            same == Cardinality({ k \in 1..(Len(a) - 1) : a[k] = a[k + 1] })
        IN /\ (Len(a) >= 2) => (out * (Len(a) - 1) = same * Scale)
           /\ (Len(a) < 2) => out = Scale
           /\ (\A k \in 1..(Len(a) - 1) : a[k] = a[k + 1]) => out = Scale
           /\ (Len(a) >= 2 /\ \A k \in 1..(Len(a) - 1) : a[k] # a[k + 1]) => out = 0
           /\ (a = <<"A", "A", "B", "B">>) => out = (2 * Scale) \div 3

\* aggregation([A, A, B, B]) returned.
C13_Witness ==
    /\ LibReturned("aggregation")
    /\ lib.args.algotypes = <<"A", "A", "B", "B">>
    /\ 3 * Val(lib.out) = 2 * Scale

\* The union of the clamped ranges of the bands.
BandUnion(bands) ==
    UNION { (Max2(2, bands[k][1] - bands[k][2]))..(bands[k][1] + bands[k][2]) :
            k \in DOMAIN bands }

\* C14: dense_bands returns the strictly ascending enumeration, without
\* duplicates, of the union of the clamped ranges
\* [max(2, center - half_width), center + half_width] of its bands, whatever
\* their order; overlapping and adjacent ranges come out as one contiguous run.
C14_DenseBands ==
    LibReturned("dense_bands") =>
        LET out == Val(lib.out)
        IN /\ \A k \in 1..(Len(out) - 1) : out[k] < out[k + 1]
           /\ Range(out) = BandUnion(lib.args.bands)
           /\ Len(out) = Cardinality(BandUnion(lib.args.bands))

\* Three bands given out of order, the third inside the second and the first
\* adjacent to it, came out as one run from 2 on.
C14_Witness ==
    /\ LibReturned("dense_bands")
    /\ lib.args.bands = << <<8, 1>>, <<4, 2>>, <<4, 0>> >>
    /\ Val(lib.out) = <<2, 3, 4, 5, 6, 7, 8, 9>>

RECURSIVE Concatenated(_, _)
\* The concatenation of the first k lists of parts.
Concatenated(parts, k) == IF k = 0 THEN <<>> ELSE Concatenated(parts, k - 1) \o parts[k]

\* The positions of xs that hold the first occurrence of their value.
FirstPositions(xs) == { k \in DOMAIN xs : \A j \in 1..(k - 1) : xs[j] # xs[k] }

\* C15: multiband_corridors returns the concatenation of the samples of its
\* bands, taken in the given order, without the later repeats of a value: no
\* duplicates, exactly the values of the concatenation, in first-seen order.
C15_Multiband ==
    LibReturned("multiband_corridors") =>
        LET out == Val(lib.out)
            all == Concatenated(lib.parts, Len(lib.parts))
        IN /\ Len(lib.parts) = Len(lib.args.bands)
           /\ Distinct(out)
           /\ Range(out) = Range(all)
           /\ Len(out) = Cardinality(FirstPositions(all))
           /\ \A i \in DOMAIN out : out[i] = all[Nth(FirstPositions(all), i)]

\* Two bands were sampled, the second drew a value of the first, and the
\* repeat is gone from the list returned.
C15_Witness ==
    /\ LibReturned("multiband_corridors")
    /\ Len(lib.parts) = 2
    /\ Len(lib.parts[1]) >= 2
    /\ \E k \in DOMAIN lib.parts[2] :
          /\ lib.parts[2][k] \in Range(lib.parts[1])
          /\ k < Len(lib.parts[2])
    /\ Len(Val(lib.out)) < Len(lib.parts[1]) + Len(lib.parts[2])

RECURSIVE WeightSum(_, _)
\* The sum of the first k weights of the weight map w.
WeightSum(w, k) == IF k = 0 THEN 0 ELSE WeightSum(w, k - 1) + w[k][2]

RECURSIVE WeightedSum(_, _, _, _, _)
\* The sum of weight * sub-energy over the first k items of the weight map w,
\* in units of 1/Scale^2.
WeightedSum(w, sp, k, n, N) ==
    IF k = 0 THEN 0
    ELSE WeightedSum(w, sp, k - 1, n, N) +
         w[k][2] * Call(REGISTRY[w[k][1]], n, N, Get(sp, w[k][1], NoParams)).value

\* C16: composite_energy raises when a name of its weights is not in the
\* registry; otherwise it returns 0 when the weights sum to 0 (an empty
\* weight map included) and else the weighted sum of the sub-energies divided
\* by the sum of the weights (to the rounding of the fixed-point arithmetic).
C16_Composite ==
    LibReturned("composite_energy") =>
        LET out == Val(lib.out)
            w == Get(lib.args.params, "weights", <<>>)
            sp == Get(lib.args.params, "sub_params", NoParams)
            wsum == WeightSum(w, Len(w))
        IN IF \E k \in DOMAIN w : w[k][1] \notin DOMAIN REGISTRY
           THEN out.err = "ValueError: Composite energy references unknown fn"
           ELSE /\ out.err = ""
                /\ (wsum = 0) => out.value = 0
                /\ (wsum # 0) =>
                      Abs(out.value * wsum
                          - WeightedSum(w, sp, Len(w), lib.args.n, lib.args.N))
                         <= Len(w) * Scale + Abs(wsum)

\* The weights 0.6 and 0.4 of combo_dir11_res, with its sub_params, on a
\* candidate that does not divide N: a positive energy between the two
\* sub-energies.
C16_Witness ==
    /\ LibReturned("composite_energy")
    /\ lib.args.params.weights = << <<"dirichlet", 7200>>, <<"residue", 4800>> >>
    /\ "sub_params" \in DOMAIN lib.args.params
    /\ lib.args.params.sub_params # NoParams
    /\ lib.args.n = 7
    /\ Val(lib.out).err = ""
    /\ Val(lib.out).value > residue_energy(7, lib.args.N, NoParams).value
    /\ Val(lib.out).value < dirichlet_energy(7, lib.args.N, [j |-> 11]).value

\* C17: a request with a non-positive window or sample count is rejected with
\* an error before any candidate is generated: corridor_around_sqrt never
\* answers such a request with a list of candidates.
C17_InvalidRejected ==
    (corr.phase = "returned") => (corr.window > 0 /\ corr.samples > 0)

\* The algotype the constructor gives the cell at 0-based index idx.
CycledAlgotype(algotypes, idx) ==
    IF algotypes = <<>> THEN "dirichlet5" ELSE algotypes[(idx % Len(algotypes)) + 1]

\* C18: a construction makes one cell per candidate, in the order of the
\* candidates: cell i holds n = candidates[i] and algotype =
\* algotypes[i mod len(algotypes)] ("dirichlet5" when the list is empty), is
\* not frozen and has no memoized energy.
C18_Construction ==
    [][(pc = "new" /\ pc' = "idle") =>
        /\ Len(cells') = Len(cfg.candidates)
        /\ \A k \in DOMAIN cells' :
              /\ cells'[k].n = cfg.candidates[k]
              /\ cells'[k].algotype = CycledAlgotype(cfg.algotypes, k - 1)
              /\ cells'[k].frozen = FALSE
              /\ cells'[k].energy = None]_vars

\* A new engine of three cells over two algotypes: the third cell has the
\* first algotype again.
C18_Witness ==
    /\ pc = "idle"
    /\ lastSweep = <<>>
    /\ energy_cache = EmptyDict
    /\ Len(cfg.algotypes) = 2
    /\ Len(cells) = 3
    /\ cells[1].algotype = cfg.algotypes[1]
    /\ cells[2].algotype = cfg.algotypes[2]
    /\ cells[3].algotype = cfg.algotypes[1]
    /\ \A k \in DOMAIN cells : cells[k].energy = None /\ ~cells[k].frozen

\* The positions of the cell constructed at 0-based index idx.
PositionsOf(idx) == { k \in DOMAIN cells : cells[k].id = idx }

\* C19: during and after run() (any number of steps) the cell sequence has
\* the length it was constructed with and is a permutation of the constructed
\* cells: each of them is there exactly once, with its n, its algotype and the
\* frozen flag it had when run() was called.
C19_Permutation ==
    (pc \in {"run", "returned", "raised"}) =>
        /\ Len(cells) = Len(cfg.candidates)
        /\ \A idx \in 0..(Len(cfg.candidates) - 1) :
              /\ Cardinality(PositionsOf(idx)) = 1
              /\ \A k \in PositionsOf(idx) :
                    /\ cells[k].n = cfg.candidates[idx + 1]
                    /\ cells[k].algotype = CycledAlgotype(cfg.algotypes, idx)
                    /\ cells[k].frozen = (idx \in cfg.frozen)

\* A run of three cells, one of them frozen, has returned after two steps
\* with exchanges: no cell is where it was constructed, and each has its
\* energy memoized.
C19_Witness ==
    /\ pc = "returned"
    /\ Len(cells) = 3
    /\ Len(swaps_per_step) >= 2
    /\ swaps_per_step[1] > 0
    /\ swaps_per_step[2] > 0
    /\ \E k \in DOMAIN cells : cells[k].frozen
    /\ \A k \in DOMAIN cells : cells[k].id # k - 1 /\ cells[k].energy # None

\* C20: under the type-2 immovable policy every pair with a frozen cell is
\* skipped by a step, with no energy evaluated and no exchange: the pair is
\* left in place, a frozen cell has no memoized energy while run() is
\* stepping, and it is at the index it was constructed at.
C20_Type2Immovable ==
    (cfg.type2_immovable /\ pc \in {"run", "returned", "raised"}) =>
        /\ \A j \in DOMAIN lastSweep :
              (lastSweep[j].left \in cfg.frozen \/ lastSweep[j].right \in cfg.frozen) =>
                  /\ lastSweep[j].skipped
                  /\ IsNone(lastSweep[j].e_left)
                  /\ IsNone(lastSweep[j].e_right)
                  /\ Kept(lastSweep[j])
        /\ \A k \in DOMAIN cells : cells[k].frozen => cells[k].id = k - 1
        /\ (pc = "run") => \A k \in DOMAIN cells : cells[k].frozen => IsNone(cells[k].energy)

\* Under the policy, a frozen first cell of higher energy than its right
\* neighbour is still first when run() has returned; the last sweep skipped
\* its pair and exchanged the other pair.
C20_Witness ==
    /\ cfg.type2_immovable
    /\ pc = "returned"
    /\ Len(cells) = 3
    /\ cells[1].frozen
    /\ cells[1].id = 0
    /\ Val(cells[1].energy) > Val(cells[2].energy)
    /\ \E j \in DOMAIN lastSweep : lastSweep[j].skipped /\ lastSweep[j].left = 0
    /\ \E j \in DOMAIN lastSweep : Compared(lastSweep[j]) /\ Exchanged(lastSweep[j])

\* The position in cs of the cell constructed at 0-based index idx.
PositionIn(cs, idx) == CHOOSE k \in DOMAIN cs : cs[k].id = idx

\* C21: without the type-2 policy, a step skips a pair of two frozen cells,
\* never exchanges a pair whose right cell is frozen, and exchanges a pair
\* whose left cell is frozen and whose right cell is not frozen and has a
\* strictly lower energy; over the steps of run() the index of a frozen cell
\* never decreases.
C21_Type1Frozen ==
    [][(pc = "run" /\ ~cfg.type2_immovable) =>
        /\ \A j \in DOMAIN lastSweep' :
              LET e == lastSweep'[j]
              IN /\ (e.left \in cfg.frozen /\ e.right \in cfg.frozen) =>
                        e.skipped /\ Kept(e)
                 /\ (e.right \in cfg.frozen) => Kept(e)
                 /\ (e.left \in cfg.frozen /\ e.right \notin cfg.frozen /\ Compared(e)
                       /\ Val(e.e_left) > Val(e.e_right)) => Exchanged(e)
        /\ \A idx \in cfg.frozen :
              PositionIn(cells', idx) >= PositionIn(cells, idx)]_vars

\* Without the policy, the frozen cell constructed first has been moved to
\* the last of three positions by its neighbours of lower energy.
C21_Witness ==
    /\ ~cfg.type2_immovable
    /\ pc = "returned"
    /\ Len(cells) = 3
    /\ cells[3].frozen
    /\ cells[3].id = 0
    /\ ~cells[1].frozen
    /\ ~cells[2].frozen

\* The cache key of a cell.
KeyOf(cell) == <<cell.algotype, cell.n>>

\* C22: within one engine, over the steps of run() and the calls of energy_of
\* they make, the scoring function is invoked at most once per (algotype, n);
\* a value stored in the cache and an energy memoized on a cell are never
\* changed by the engine; cells with equal (algotype, n) that report an energy
\* report the same one, wherever they are.
C22_ScoredOnce ==
    [][(pc # "new") =>
        /\ \A key \in DOMAIN calls' : calls'[key] <= 1
        /\ \A key \in DOMAIN energy_cache :
              key \in DOMAIN energy_cache' /\ energy_cache'[key] = energy_cache[key]
        /\ \A k \in DOMAIN cells :
              ~IsNone(cells[k].energy) =>
                  cells'[PositionIn(cells', cells[k].id)].energy = cells[k].energy
        /\ \A j, k \in DOMAIN cells' :
              (KeyOf(cells'[j]) = KeyOf(cells'[k]) /\ ~IsNone(cells'[j].energy)
                 /\ ~IsNone(cells'[k].energy)) =>
                  cells'[j].energy = cells'[k].energy]_vars

\* Three cells, the first and the last of the construction with the same
\* (algotype, n): after run() they have been moved, report the same energy,
\* and the scoring function ran once for their key.
C22_Witness ==
    /\ pc = "returned"
    /\ Len(cells) = 3
    /\ \E j, k \in DOMAIN cells :
          /\ j # k
          /\ KeyOf(cells[j]) = KeyOf(cells[k])
          /\ cells[j].id # j - 1
          /\ ~IsNone(cells[j].energy)
          /\ cells[j].energy = cells[k].energy
          /\ Get(calls, KeyOf(cells[j]), 0) = 1
    /\ Cardinality(DOMAIN energy_cache) = 2

\* A step of run() that returned: the loop of run() appended its swaps.
StepReturned == pc = "run" /\ Len(swaps_per_step') = Len(swaps_per_step) + 1

\* The pair indices the sweep recorded in log inspected, in its order.
Inspections(log) == [j \in DOMAIN log |-> log[j].i]

\* C23: a step inspects each pair index of 0..length-2 exactly once: in
\* ascending mode in the order 0, 1, ..., length-2, in random mode in the
\* order of a shuffle of that list drawn from the engine's rng at the start
\* of the step, which advances the rng; with fewer than two cells it inspects
\* no pair and returns 0.
C23_SweepOrder ==
    [][StepReturned =>
        LET order == Inspections(lastSweep')
            length == Len(cells)
        IN /\ Len(order) = Max2(length - 1, 0)
           /\ \A i0 \in 0..(length - 2) :
                 Cardinality({ j \in DOMAIN order : order[j] = i0 }) = 1
           /\ (cfg.sweep_order = "ascending") =>
                 /\ \A j \in DOMAIN order : order[j] = j - 1
                 /\ rng' = rng
           /\ (cfg.sweep_order = "random") =>
                 /\ order = Shuffle(rng, [j \in 1..Max2(length - 1, 0) |-> j - 1]).x
                 /\ rng' = Shuffle(rng, [j \in 1..Max2(length - 1, 0) |-> j - 1]).state
           /\ (length < 2) =>
                 order = <<>> /\ swaps_per_step'[Len(swaps_per_step')] = 0]_vars

\* A run in random mode whose first step inspected pair 0 before pair 1 and
\* whose last step inspected pair 1 before pair 0.
C23_Witness ==
    /\ cfg.sweep_order = "random"
    /\ pc = "returned"
    /\ Len(cells) = 3
    /\ Len(swaps_per_step) >= 2
    /\ Inspections(lastSweep) = <<1, 0>>
    /\ rng_from_hex(cfg.seed_hex) # rng
    /\ Shuffle(rng_from_hex(cfg.seed_hex), <<0, 1>>).x = <<0, 1>>

\* The value x lies beyond the extremum of the given kind and value v by more
\* than epsilon on the other side: a reversal.
Reversed(kind, v, x, epsilon) == IF kind = "P" THEN v - x > epsilon ELSE x - v > epsilon

\* The value x would have replaced the running extremum v of the given kind.
Beyond(kind, v, x) == IF kind = "P" THEN x > v ELSE x < v

\* The first position (1-based) after that of the extremum e at which the
\* series reverses by more than epsilon; 0 if there is none.
ReversalOf(series, epsilon, e) ==
    LET after == { i \in (e[3] + 2)..Len(series) : Reversed(e[1], e[2], series[i], epsilon) }
    IN IF after = {} THEN 0 ELSE CHOOSE i \in after : \A j \in after : i <= j

\* The position (1-based) at which the tracking that led to extrema[k] began.
PhaseStart(series, epsilon, extrema, k) ==
    IF k = 1 THEN 1 ELSE ReversalOf(series, epsilon, extrema[k - 1])

\* The extremum extrema[k] is the first running extremum of its phase up to a
\* reversal of more than epsilon that follows it.
RecordedAtReversal(series, epsilon, extrema, k) ==
    LET e == extrema[k]
        start == PhaseStart(series, epsilon, extrema, k)
        rev == ReversalOf(series, epsilon, e)
    IN /\ series[e[3] + 1] = e[2]
       /\ start >= 1
       /\ start <= e[3] + 1
       /\ rev > e[3] + 1
       /\ \A j \in start..(rev - 1) : ~Beyond(e[1], e[2], series[j])
       /\ \A j \in start..e[3] : series[j] # e[2]

\* C24: the extrema detect_dg builds alternate between peaks and valleys,
\* the first being a peak exactly when the first direction is ascending; for
\* an epsilon that is not negative, each recorded peak is the running maximum
\* of its ascending phase and is followed by a value more than epsilon below
\* it (symmetrically for valleys), so that a trailing extremum without such a
\* reversal is not recorded.
C24_ExtremaAlternate ==
    (LibReturned("detect_dg") /\ ~IsNone(lib.locals)) =>
        LET extrema == Val(lib.locals).extrema
            series == lib.args.series
        IN /\ \A k \in 1..(Len(extrema) - 1) : extrema[k][1] # extrema[k + 1][1]
           /\ \A k \in DOMAIN extrema : extrema[k][1] \in {"P", "V"}
           /\ (extrema # <<>>) =>
                 (extrema[1][1] = "P") = (Val(lib.locals).direction = 1)
           /\ (lib.args.epsilon >= 0) =>
                 \A k \in DOMAIN extrema :
                     RecordedAtReversal(series, lib.args.epsilon, extrema, k)

\* A series that climbs to a peak, stays, falls by less than epsilon from
\* 0.2 to a valley, rises to a higher peak and falls: the small fall is not
\* taken for a valley of its own, and the trailing valley is not recorded.
C24_Witness ==
    /\ LibReturned("detect_dg")
    /\ lib.args.epsilon = 3000
    /\ lib.args.series = <<0, 12000, 12000, 2400, 0, 18000, 0>>
    /\ Val(lib.locals).extrema = << <<"P", 12000, 1>>, <<"V", 0, 4>>, <<"P", 18000, 5>> >>

\* The positions of the series whose value is more than epsilon away from the
\* first value.
MovesBeyond(series, epsilon) ==
    { i \in DOMAIN series : Abs(series[i] - series[1]) > epsilon }

\* C25: in detect_dg, for an epsilon that is not negative, the first
\* direction is that of the first move away from the first value by more
\* than epsilon: ascending if it is upward, descending if it is downward;
\* without such a move no direction is set and the result is no extrema, no
\* episodes and index 0.
C25_FirstDirection ==
    (LibReturned("detect_dg") /\ ~IsNone(lib.locals) /\ lib.args.epsilon >= 0) =>
        LET series == lib.args.series
            moves == MovesBeyond(series, lib.args.epsilon)
            direction == Val(lib.locals).direction
        IN IF moves = {}
           THEN /\ direction = 0
                /\ Val(lib.locals).extrema = <<>>
                /\ Val(lib.out).episodes = <<>>
                /\ Val(lib.out).index = 0
           ELSE /\ direction \in {1, -1}
                /\ \A i \in moves :
                      (\A j \in moves : i <= j) =>
                          /\ (series[i] > series[1]) => direction = 1
                          /\ (series[i] < series[1]) => direction = -1

\* With epsilon 0.25 the series starts with a fall of 0.2, which is not a
\* move beyond epsilon, and then rises by 1.3 above the first value: the
\* first direction is ascending, and the peak that follows is recorded.
C25_Witness ==
    /\ LibReturned("detect_dg")
    /\ lib.args.epsilon = 3000
    /\ lib.args.series = <<2400, 0, 18000, 0>>
    /\ Val(lib.locals).direction = 1
    /\ Val(lib.locals).extrema = << <<"P", 18000, 2>> >>

\* The last step of the loop of run() so far returned 0.
EndedOnZero(swaps) == Len(swaps) > 0 /\ swaps[Len(swaps)] = 0

\* C26: with no frozen cells, after a step that returned 0 swaps (ascending
\* or random sweep) the cells are in non-decreasing order of energy; when
\* run() ends on such a step, final_state is in ascending order of energy and
\* ranked_candidates equals final_state item by item.
C26_ZeroSwapsSorted ==
    (cfg.frozen = {}) =>
        /\ (pc = "run" /\ EndedOnZero(swaps_per_step)) =>
              \A k \in 1..(Len(cells) - 1) :
                  /\ ~IsNone(cells[k].energy)
                  /\ ~IsNone(cells[k + 1].energy)
                  /\ Val(cells[k].energy) <= Val(cells[k + 1].energy)
        /\ (pc = "returned" /\ EndedOnZero(Val(result).swaps_per_step)) =>
              /\ \A k \in 1..(Len(Val(result).final_state) - 1) :
                    DecimalOf(Val(result).final_state[k].energy)
                       <= DecimalOf(Val(result).final_state[k + 1].energy)
              /\ Val(result).ranked_candidates = Val(result).final_state

\* A run in random mode over three cells, none frozen, that exchanged cells
\* and ended on a step without swaps: the ranking is the final state, with
\* different energies at its ends.
C26_Witness ==
    /\ cfg.frozen = {}
    /\ cfg.sweep_order = "random"
    /\ pc = "returned"
    /\ Len(Val(result).swaps_per_step) >= 2
    /\ Val(result).swaps_per_step[1] > 0
    /\ EndedOnZero(Val(result).swaps_per_step)
    /\ Len(Val(result).final_state) = 3
    /\ Val(result).ranked_candidates = Val(result).final_state
    /\ Val(result).final_state[1].energy # Val(result).final_state[3].energy

\* The number of pairs of positions i < j of es with es[i] > es[j].
InversionCount(es) ==
    Cardinality({ ij \in (DOMAIN es) \X (DOMAIN es) : ij[1] < ij[2] /\ es[ij[1]] > es[ij[2]] })

\* The energies of the cells of a run that returned, in the order of the
\* cells, and in the order of their construction.
FinalEnergies == [k \in DOMAIN cells |-> Val(cells[k].energy)]
InitialEnergies == [k \in DOMAIN cells |-> Val(cells[PositionIn(cells, k - 1)].energy)]

RECURSIVE SumOf(_)
SumOf(xs) == IF xs = <<>> THEN 0 ELSE xs[1] + SumOf(Tail(xs))

\* The exchanges of a run that returned took one inversion each from the
\* sequence and added none: their number is the number of inversions of the
\* initial sequence less that of the final one.
OneInversionEach ==
    SumOf(Val(result).swaps_per_step)
        = InversionCount(InitialEnergies) - InversionCount(FinalEnergies)

\* C27, as the claim states it: every exchange removes exactly one energy
\* inversion and creates none, the sum of swaps_per_step never exceeds the
\* inversion count of the initial sequence, and with no frozen cells the sum
\* equals that count if and only if the run ended on a step without swaps.
C27_EqualExactlyWhenZero ==
    (pc = "returned") =>
        /\ OneInversionEach
        /\ SumOf(Val(result).swaps_per_step) <= InversionCount(InitialEnergies)
        /\ (cfg.frozen = {}) =>
              ((SumOf(Val(result).swaps_per_step) = InversionCount(InitialEnergies))
                 <=> EndedOnZero(Val(result).swaps_per_step))

\* C27, amended: every exchange removes exactly one energy inversion and
\* creates none, the sum of swaps_per_step never exceeds the inversion count
\* of the initial sequence, and with no frozen cells the sum equals that
\* count if the run ended on a step without swaps (it may also equal it when
\* the run ended on the step bound).
C27_SwapsCountInversions ==
    (pc = "returned") =>
        /\ OneInversionEach
        /\ SumOf(Val(result).swaps_per_step) <= InversionCount(InitialEnergies)
        /\ (cfg.frozen = {} /\ EndedOnZero(Val(result).swaps_per_step)) =>
              SumOf(Val(result).swaps_per_step) = InversionCount(InitialEnergies)

\* A run over three cells, none frozen, that started with at least two
\* inversions, removed them all and ended on a step without swaps.
C27_Witness ==
    /\ pc = "returned"
    /\ cfg.frozen = {}
    /\ Len(cells) = 3
    /\ EndedOnZero(Val(result).swaps_per_step)
    /\ InversionCount(InitialEnergies) >= 2
    /\ SumOf(Val(result).swaps_per_step) = InversionCount(InitialEnergies)
    /\ InversionCount(FinalEnergies) = 0

\* The last k cells hold the k highest energies, in ascending order.
HighestLast(k) ==
    \A j \in (Len(cells) - k + 1)..Len(cells) :
        (j >= 1) => \A i \in 1..(j - 1) : Val(cells[i].energy) <= Val(cells[j].energy)

\* C28: with no frozen cells, ascending sweeps and max_steps >= max(1, number
\* of cells), a run that returns has reached the fixed point within the
\* bound: the last entry of swaps_per_step is 0; after k steps of such a run
\* the k highest energies are in the last k positions, in order.
C28_AscendingConverges ==
    (cfg.frozen = {} /\ cfg.sweep_order = "ascending"
       /\ cfg.max_steps >= Max2(1, Len(cfg.candidates))) =>
        /\ (pc = "returned") => EndedOnZero(Val(result).swaps_per_step)
        /\ (pc = "run" /\ Len(swaps_per_step) >= 1) => HighestLast(Len(swaps_per_step))

\* A run of ascending sweeps over three cells with max_steps = 3 that needed
\* all three steps: two with exchanges and the last without.
C28_Witness ==
    /\ cfg.frozen = {}
    /\ cfg.sweep_order = "ascending"
    /\ pc = "returned"
    /\ Len(cfg.candidates) = 3
    /\ cfg.max_steps = Len(cfg.candidates)
    /\ Len(Val(result).swaps_per_step) = cfg.max_steps
    /\ Val(result).swaps_per_step[1] > 0
    /\ Val(result).swaps_per_step[2] > 0
    /\ EndedOnZero(Val(result).swaps_per_step)

RECURSIVE Advanced(_, _)
\* The state of the rng after the given number of draws.
Advanced(state, draws) == IF draws <= 0 THEN state ELSE Advanced(RngNext(state), draws - 1)

\* What a step of run() does to the rng: nothing in ascending mode; in random
\* mode the draws of one shuffle of the length-1 pair indices, one per
\* position but the first.
RngFrame ==
    (pc = "run") =>
        IF cfg.sweep_order = "random"
              /\ LoopContinues(Len(swaps_per_step), cfg.max_steps, swaps_per_step)
        THEN rng' = Advanced(rng, Len(cells) - 2)
        ELSE rng' = rng

\* C29: in ascending mode step() and run() leave the state of the rng as it
\* is, and two engines built from the same arguments with rngs of any two
\* seeds end in the same outcome; in random mode each step consumes one
\* shuffle.
C29_SeedIrrelevant ==
    /\ []((cfg.sweep_order = "ascending" /\ runNo = 2 /\ Finished) => result = first)
    /\ [][RngFrame]_vars

\* In ascending mode the second engine, whose rng was seeded otherwise than
\* that of the first, has returned the result of the first after a run with
\* exchanges; its rng is still in the state of its seed.
C29_Witness ==
    /\ cfg.sweep_order = "ascending"
    /\ runNo = 2
    /\ Returned1
    /\ Len(cells) = 3
    /\ Val(result).swaps_per_step[1] > 0
    /\ result = first
    /\ rng # rng_from_hex(cfg.seed_hex)
    /\ \E seed_hex \in SeedHexValues : rng = rng_from_hex(seed_hex)

\* The two checks of challenge mode, on the arguments of the command line:
\* the modulus is the canonical one and the candidates file holds no more
\* than 50,000,000 candidates.
CanonicalN ==
    lib.args.override_n \in {None, Some(0), Some(CHALLENGE_n)}
WithinLimit == lib.args.candidates_file.count <= 50000000

\* The engine exists, a sweep step was executed or a log was written.
EngineTouched ==
    \/ pc # "off"
    \/ cells # <<>>
    \/ lastSweep # <<>>
    \/ swaps_per_step # <<>>
    \/ ~IsNone(lib.log)

\* C30: in challenge mode the engine is constructed and run, and a log
\* written, only when the modulus is the canonical N and the count of loaded
\* candidates does not exceed 50,000,000; when either check fails, main ends
\* with an error at the check, before any of that.
C30_ChecksFirst ==
    (lib.args.mode = "challenge") =>
        /\ EngineTouched => (CanonicalN /\ WithinLimit)
        /\ (~CanonicalN /\ lib.phase # "start") =>
              lib.phase = "raised" /\ lib.err # "" /\ IsNone(lib.candidates)
        /\ (CanonicalN /\ ~WithinLimit /\ lib.phase \notin {"start", "parsed", "loaded"}) =>
              lib.phase = "raised" /\ lib.err # ""
        /\ (pc = "new") => lib.phase = "checked"

\* Challenge mode with the canonical N and a file of exactly 50,000,000
\* candidates: the engine ran, with exchanges, and the log was written.
C30_Witness ==
    /\ lib.phase = "logged"
    /\ lib.args.mode = "challenge"
    /\ lib.args.candidates_file.count = 50000000
    /\ Val(lib.log).N = CHALLENGE_n
    /\ Val(lib.log).candidate_count = 50000000
    /\ Val(lib.log).results.swaps_per_step[1] > 0
    /\ Len(Val(lib.log).certification) = 3

====
